---- MODULE Spec2Model ----
(***************************************************************************)
(* A model of the capsicum crate: capability rights on file descriptors   *)
(* (FileRights, FcntlRights, IoctlRights), the process's capability mode   *)
(* (enter, sandboxed, get_mode) and the Directory helper.                  *)
(*                                                                         *)
(* A u64 or u32 word is modelled as the set of the positions of its set    *)
(* bits (bit 0 is the least significant one): bitwise OR is union, AND is  *)
(* intersection, and AND NOT is set difference.  A cap_rights_t is the     *)
(* pair <<cr_rights[0], cr_rights[1]>> of two such words.                  *)
(*                                                                         *)
(* The crate is a binding: what the kernel and libc do behind the calls    *)
(* it makes is not code of the crate.  Those parts (the definitions named  *)
(* cap_* / sys_* below) follow the documented contract of the calls.       *)
(***************************************************************************)
EXTENDS Integers, FiniteSets, Sequences, TLC

(***************************************************************************)
(* Bounds of the model.                                                    *)
(***************************************************************************)
\* successful writes to a file the model follows
MaxWrites == 2
\* successful relative opens in a directory the model follows
MaxOpens == 1
\* longest list of ioctl commands an IoctlsBuilder is given, and the
\* largest buffer length handed to IoctlRights::from_file
MaxIoctls == 2
\* number of allow/deny calls on one local FileRights value
MaxOps == 2

(***************************************************************************)
(* right.rs: the macros cap_right! and right_or!, and enum Right.          *)
(***************************************************************************)
\* cap_right!(idx, bit) = (1 << (57 + idx)) | bit
cap_right(idx, bit) == {57 + idx} \cup bit

\* right_or!(a, b, ...) = a | b | ...
right_or(a, b) == a \cup b

Null == {}
Read == cap_right(0, {0})
Write == cap_right(0, {1})
SeekTell == cap_right(0, {2})
\* a faulty Seek: the SeekTell operand of right_or! is lost
Seek_alone == cap_right(0, {3})

Seek == right_or(SeekTell, {3})
Pread == right_or(Seek, Read)
Pwrite == right_or(Seek, Write)
Mmap == cap_right(0, {4})
MmapR == right_or(right_or(Mmap, Seek), Read)
MmapW == right_or(right_or(Mmap, Seek), Write)
MmapX == right_or(right_or(Mmap, Seek), {5})
MmapRW == right_or(MmapR, MmapW)
MmapRX == right_or(MmapR, MmapX)
MmapWX == right_or(MmapW, MmapX)
MmapRWX == right_or(right_or(MmapR, MmapW), MmapX)
Create == cap_right(0, {6})
Fexecve == cap_right(0, {7})
Fsync == cap_right(0, {8})
Ftruncate == cap_right(0, {9})
Lookup == cap_right(0, {10})
Fchdir == cap_right(0, {11})
Fchflags == cap_right(0, {12})
Fchflagsat == right_or(Fchflags, Lookup)
Fchmod == cap_right(0, {13})
Fchmodat == right_or(Fchmod, Lookup)
Fchown == cap_right(0, {14})
Fchownat == right_or(Fchown, Lookup)
Fcntl == cap_right(0, {15})
Flock == cap_right(0, {16})
Fpathconf == cap_right(0, {17})
Fsck == cap_right(0, {18})
Fstat == cap_right(0, {19})
Fstatat == right_or(Fstat, Lookup)
Fstatfs == cap_right(0, {20})
Futimes == cap_right(0, {21})
Futimesat == right_or(Futimes, Lookup)
LinkatTarget == right_or(Lookup, {22})
Mkdirat == right_or(Lookup, {23})
Mkfifoat == right_or(Lookup, {24})
Mknotat == right_or(Lookup, {25})
RenameatSource == right_or(Lookup, {26})
RenameatTarget == right_or(Lookup, {42})
Symlinkat == right_or(Lookup, {27})
Unlinkat == right_or(Lookup, {28})
Accept == cap_right(0, {29})
Bind == cap_right(0, {30})
Connect == cap_right(0, {31})
Getpeername == cap_right(0, {32})
Getsockname == cap_right(0, {33})
Getsockopt == cap_right(0, {34})
Listen == cap_right(0, {35})
Peeloff == cap_right(0, {36})
Setsockopt == cap_right(0, {37})
Shutdown == cap_right(0, {38})
Bindat == right_or(Lookup, {39})
Connectat == right_or(Lookup, {40})
LinkatSource == right_or(Lookup, {41})
SockClient == right_or(right_or(right_or(right_or(right_or(right_or(right_or(right_or(Connect, Getpeername), Getsockname), Getsockopt), Peeloff), Read), Write), Setsockopt), Shutdown)
SockServer == right_or(right_or(right_or(right_or(right_or(right_or(right_or(right_or(right_or(right_or(Accept, Bind), Getpeername), Getsockname), Getsockopt), Listen), Peeloff), Read), Write), Setsockopt), Shutdown)
All0 == cap_right(0, 0..38)
Unused044 == cap_right(0, {43})
Unused057 == cap_right(0, {56})
MacGet == cap_right(1, {0})
MacSet == cap_right(1, {1})
SemGetvalue == cap_right(1, {2})
SemPost == cap_right(1, {3})
SemWait == cap_right(1, {4})
Event == cap_right(1, {5})
KqueueEvent == cap_right(1, {6})
Ioctl == cap_right(1, {7})
Ttyhook == cap_right(1, {8})
Pdgetpid == cap_right(1, {9})
Pdwait == cap_right(1, {10})
Pdkill == cap_right(1, {11})
ExtattrDelete == cap_right(1, {12})
ExtattrGet == cap_right(1, {13})
ExtattrList == cap_right(1, {14})
ExtattrSet == cap_right(1, {15})
AclCheck == cap_right(1, {16})
AclDelete == cap_right(1, {17})
AclGet == cap_right(1, {18})
AclSet == cap_right(1, {19})
KqueueChange == cap_right(1, {20})
Kqueue == right_or(KqueueEvent, KqueueChange)
All1 == cap_right(1, 0..20)
Unused122 == cap_right(1, {21})
Unused157 == cap_right(1, {56})

Right ==
  [Null |-> Null, Read |-> Read, Write |-> Write, SeekTell |-> SeekTell,
   Seek |-> Seek, Pread |-> Pread, Pwrite |-> Pwrite, Mmap |-> Mmap,
   MmapR |-> MmapR, MmapW |-> MmapW, MmapX |-> MmapX, MmapRW |-> MmapRW,
   MmapRX |-> MmapRX, MmapWX |-> MmapWX, MmapRWX |-> MmapRWX, Create |-> Create,
   Fexecve |-> Fexecve, Fsync |-> Fsync, Ftruncate |-> Ftruncate, Lookup |-> Lookup,
   Fchdir |-> Fchdir, Fchflags |-> Fchflags, Fchflagsat |-> Fchflagsat, Fchmod |-> Fchmod,
   Fchmodat |-> Fchmodat, Fchown |-> Fchown, Fchownat |-> Fchownat, Fcntl |-> Fcntl,
   Flock |-> Flock, Fpathconf |-> Fpathconf, Fsck |-> Fsck, Fstat |-> Fstat,
   Fstatat |-> Fstatat, Fstatfs |-> Fstatfs, Futimes |-> Futimes, Futimesat |-> Futimesat,
   LinkatTarget |-> LinkatTarget, Mkdirat |-> Mkdirat, Mkfifoat |-> Mkfifoat, Mknotat |-> Mknotat,
   RenameatSource |-> RenameatSource, RenameatTarget |-> RenameatTarget, Symlinkat |-> Symlinkat, Unlinkat |-> Unlinkat,
   Accept |-> Accept, Bind |-> Bind, Connect |-> Connect, Getpeername |-> Getpeername,
   Getsockname |-> Getsockname, Getsockopt |-> Getsockopt, Listen |-> Listen, Peeloff |-> Peeloff,
   Setsockopt |-> Setsockopt, Shutdown |-> Shutdown, Bindat |-> Bindat, Connectat |-> Connectat,
   LinkatSource |-> LinkatSource, SockClient |-> SockClient, SockServer |-> SockServer, All0 |-> All0,
   Unused044 |-> Unused044, Unused057 |-> Unused057, MacGet |-> MacGet, MacSet |-> MacSet,
   SemGetvalue |-> SemGetvalue, SemPost |-> SemPost, SemWait |-> SemWait, Event |-> Event,
   KqueueEvent |-> KqueueEvent, Ioctl |-> Ioctl, Ttyhook |-> Ttyhook, Pdgetpid |-> Pdgetpid,
   Pdwait |-> Pdwait, Pdkill |-> Pdkill, ExtattrDelete |-> ExtattrDelete, ExtattrGet |-> ExtattrGet,
   ExtattrList |-> ExtattrList, ExtattrSet |-> ExtattrSet, AclCheck |-> AclCheck, AclDelete |-> AclDelete,
   AclGet |-> AclGet, AclSet |-> AclSet, KqueueChange |-> KqueueChange, Kqueue |-> Kqueue,
   All1 |-> All1, Unused122 |-> Unused122, Unused157 |-> Unused157]

OredInto ==
  [Seek |-> {"SeekTell"},
   Pread |-> {"Seek", "Read"},
   Pwrite |-> {"Seek", "Write"},
   MmapR |-> {"Mmap", "Seek", "Read"},
   MmapW |-> {"Mmap", "Seek", "Write"},
   MmapX |-> {"Mmap", "Seek"},
   MmapRW |-> {"MmapR", "MmapW"},
   MmapRX |-> {"MmapR", "MmapX"},
   MmapWX |-> {"MmapW", "MmapX"},
   MmapRWX |-> {"MmapR", "MmapW", "MmapX"},
   Fchflagsat |-> {"Fchflags", "Lookup"},
   Fchmodat |-> {"Fchmod", "Lookup"},
   Fchownat |-> {"Fchown", "Lookup"},
   Fstatat |-> {"Fstat", "Lookup"},
   Futimesat |-> {"Futimes", "Lookup"},
   LinkatTarget |-> {"Lookup"},
   Mkdirat |-> {"Lookup"},
   Mkfifoat |-> {"Lookup"},
   Mknotat |-> {"Lookup"},
   RenameatSource |-> {"Lookup"},
   RenameatTarget |-> {"Lookup"},
   Symlinkat |-> {"Lookup"},
   Unlinkat |-> {"Lookup"},
   Bindat |-> {"Lookup"},
   Connectat |-> {"Lookup"},
   LinkatSource |-> {"Lookup"},
   SockClient |-> {"Connect", "Getpeername", "Getsockname", "Getsockopt", "Peeloff", "Read", "Write", "Setsockopt", "Shutdown"},
   SockServer |-> {"Accept", "Bind", "Getpeername", "Getsockname", "Getsockopt", "Listen", "Peeloff", "Read", "Write", "Setsockopt", "Shutdown"},
   Kqueue |-> {"KqueueEvent", "KqueueChange"}]

(***************************************************************************)
(* libc's cap_rights_* family, which FileRights wraps.                     *)
(***************************************************************************)
\* the flag field of a word: the low 57 bits (0x01FFFFFFFFFFFFFF)
FlagBits == 0..56

\* the index of the word a right belongs to, read from its tag bit
right_to_index(right) ==
  IF 57 \in right THEN 0 ELSE IF 58 \in right THEN 1 ELSE -1

\* __cap_rights_init(RIGHTS_VERSION, &rights, 0): the empty, valid value;
\* each word carries only its own tag bit
cap_rights_init == <<cap_right(0, {}), cap_right(1, {})>>

\* __cap_rights_set(&rights, right, 0): OR the right into its word; the
\* argument list ends at the first 0, so right = 0 changes nothing
cap_rights_set(rights, right) ==
  IF right = {} THEN rights
  ELSE [rights EXCEPT ![right_to_index(right) + 1] = @ \cup right]

\* __cap_rights_clear(&rights, right, 0): clear the right's flag bits in
\* its word, keeping the word's tag
cap_rights_clear(rights, right) ==
  IF right = {} THEN rights
  ELSE [rights EXCEPT ![right_to_index(right) + 1] = @ \ (right \cap FlagBits)]

\* __cap_rights_is_set(&rights, right, 0): the right's whole bit pattern is
\* present in its word
cap_rights_is_set(rights, right) ==
  right = {} \/ right \subseteq rights[right_to_index(right) + 1]

\* cap_rights_contains(big, little): every bit of little is set in big
cap_rights_contains(big, little) ==
  \A i \in 1..2 : little[i] \subseteq big[i]

\* cap_rights_merge(dst, src): OR every word of src into dst; returns dst,
\* never a null pointer
cap_rights_merge(dst, src) ==
  [null |-> FALSE, rights |-> [i \in 1..2 |-> dst[i] \cup src[i]]]

\* cap_rights_remove(dst, src): clear in every word of dst the flag bits set
\* in src, keeping the word's tag; returns dst, never a null pointer
cap_rights_remove(dst, src) ==
  [null |-> FALSE, rights |-> [i \in 1..2 |-> dst[i] \ (src[i] \cap FlagBits)]]

(***************************************************************************)
(* right.rs: FileRights.                                                   *)
(***************************************************************************)
FileRights_new == cap_rights_init

FileRights_allow(self, right) == cap_rights_set(self, right)

FileRights_deny(self, right) == cap_rights_clear(self, right)

\* a faulty contains: the two operands change places
FileRights_contains_swapped(self, other) == cap_rights_contains(other, self)

FileRights_contains(self, other) == cap_rights_contains(self, other)

FileRights_is_set(self, right) == cap_rights_is_set(self, right)

\* merge: the value self holds after the call, and what the call returns
FileRights_merge_val(self, other) == cap_rights_merge(self, other).rights

FileRights_merge_ret(self, other) ==
  IF cap_rights_merge(self, other).null THEN [tag |-> "Err", val |-> "last_os_error"]
  ELSE [tag |-> "Ok", val |-> "()"]

\* a faulty remove: calls cap_rights_merge
FileRights_remove_val_merges(self, other) == cap_rights_merge(self, other).rights

\* remove: the value self holds after the call, and what the call returns
FileRights_remove_val(self, other) == cap_rights_remove(self, other).rights

FileRights_remove_ret(self, other) ==
  IF cap_rights_remove(self, other).null THEN [tag |-> "Err", val |-> "last_os_error"]
  ELSE [tag |-> "Ok", val |-> "()"]

\* the deprecated set and clear: allow and deny, then Ok(())
FileRights_set(self, raw_rights) == FileRights_allow(self, raw_rights)

FileRights_clear(self, raw_rights) == FileRights_deny(self, raw_rights)

(***************************************************************************)
(* fcntl.rs: enum Fcntl, FcntlsBuilder and FcntlRights (a u32 mask).       *)
(***************************************************************************)
\* enum Fcntl: GetFL = 0x8, SetFL = 0x10, GetOwn = 0x20, SetOwn = 0x40
FcntlCmds == [GetFL |-> {3}, SetFL |-> {4}, GetOwn |-> {5}, SetOwn |-> {6}]

FcntlsBuilder_new == {}

FcntlsBuilder_allow(self, right) == self \cup right

FcntlsBuilder_deny(self, right) == self \ right

FcntlsBuilder_finalize(self) == self

(***************************************************************************)
(* ioctl.rs: IoctlsBuilder (a Vec<u_long>) and enum IoctlRights.           *)
(***************************************************************************)
\* const CAP_IOCTLS_ALL: isize = isize::MAX, the sentinel cap_ioctls_get
\* returns for a descriptor with no ioctl limit.  The model takes a 32-bit
\* isize: all that matters is that it exceeds every list length.
CAP_IOCTLS_ALL == 2147483647

Unlimited == [kind |-> "Unlimited", cmds |-> <<>>]

Limited(v) == [kind |-> "Limited", cmds |-> v]

IoctlsBuilder_new == <<>>

IoctlsBuilder_allow(self, right) == Append(self, right)

IoctlsBuilder_deny(self, right) == SelectSeq(self, LAMBDA item : item # right)

\* a faulty finalize: an empty builder becomes Unlimited
IoctlsBuilder_finalize_collapsed(self) ==
  IF self = <<>> THEN Unlimited ELSE Limited(self)

IoctlsBuilder_finalize(self) == Limited(self)

(***************************************************************************)
(* RightsBuilder.  Three generations of it live side by side:              *)
(*   capsicum/src/right.rs  RightsBuilder(cap_rights_t), allow / deny      *)
(*   src/right.rs           RightsBuilder(u64), add / remove               *)
(*   src/cap.rs             RightsBuilder(u64), add / remove               *)
(* The model feeds all three, and a FileRights value next to them, the     *)
(* same calls.                                                             *)
(***************************************************************************)
\* number of calls made on one builder, its constructor included
MaxCalls == 4

\* the rights the builders are given
BuilderPool == {"Read", "Write", "Lookup", "AclGet", "AclSet"}

\* the index field of a right: bits 57..61 (CAPIDXBIT)
IndexBits == 57..61

\* 0x200000000000000 = 1 << 57: the tag bit of word 0
Word0Tag == {57}

\* ---- capsicum/src/right.rs ----
RightsBuilder_new == cap_rights_init

RightsBuilder_allow(self, right) == cap_rights_set(self, right)

\* a faulty deny: it sets the right
RightsBuilder_deny_sets(self, right) == cap_rights_set(self, right)

RightsBuilder_deny(self, right) == cap_rights_clear(self, right)

RightsBuilder_finalize(self) == self

\* ---- src/right.rs ----
right_RightsBuilder_new(right) == right

right_RightsBuilder_add(self, right) == self \cup right

\* a faulty remove: the word-0 tag bit is not put back
right_RightsBuilder_remove_untagged(self, right) == self \ right

right_RightsBuilder_remove(self, right) == (self \ right) \cup Word0Tag

right_RightsBuilder_raw(self) == self

\* __cap_rights_init(RIGHTS_VERSION, &rights, raw, 0) with one non-zero
\* argument: libc ORs it into the word its index field names.  An index
\* field that names no word (two tag bits, or none) trips an assert() in
\* libc; where the assert is compiled out the OR lands outside the two words.
\* The result is the set of the outcomes the call can have.
cap_rights_vinit(raw) ==
  IF raw = {} THEN {[aborts |-> FALSE, rights |-> cap_rights_init]}
  ELSE IF raw \cap IndexBits \in {{57}, {58}}
    THEN {[aborts |-> FALSE, rights |-> cap_rights_set(cap_rights_init, raw)]}
    ELSE {[aborts |-> a, rights |-> cap_rights_init] : a \in BOOLEAN}

\* ---- src/cap.rs ----
cap_RightsBuilder_new(right) == right

cap_RightsBuilder_add(self, right) == self \cup right

\* self.0 ^= right: exclusive or
cap_RightsBuilder_remove(self, right) == (self \ right) \cup (right \ self)

cap_RightsBuilder_bits(self) == self

\* ---- tests/lib.rs: the calls of test_rights_builer ----
test_rights_builer ==
  <<<<"new", "Read">>, <<"add", "Lookup">>, <<"add", "AclSet">>,
    <<"add", "AclSet">>, <<"add", "AclGet">>, <<"add", "Write">>,
    <<"remove", "Lookup">>, <<"remove", "AclGet">>>>

\* no builder yet
NoBuilder ==
  [calls |-> <<>>, raw |-> {}, bits |-> {},
   cap |-> RightsBuilder_new, file |-> FileRights_new]

(***************************************************************************)
(* The state.  The first group is the kernel's: the crate keeps no state   *)
(* of its own ("a pure query function over live kernel state").  The       *)
(* second group records what the calls made so far returned.               *)
(***************************************************************************)
VARIABLES
  service,        \* a service process: the calls the broker made into c_cmd / c_limit
  builder,        \* the rights builders under construction, fed the same calls
  capsupport,     \* the kernel was built with capability support
  capmode,        \* the process is in capability mode
  fde_rights,     \* descriptor -> cap_rights_t the kernel records for it
  fde_fcntls,     \* descriptor -> fcntl mask the kernel records for it
  fde_ioctls,     \* descriptor -> [nioctls, cmds]; nioctls = -1: no limit
  written,        \* descriptor -> number of writes that reached the file
  looked_up,      \* descriptor -> number of files opened relative to it
  ret,            \* the latest call: [op, fd, arg, res]
  entered_ok,     \* enter() has returned Ok
  seen_sandboxed, \* sandboxed() or get_mode() has returned true
  last_ok,        \* descriptor -> <<R>>, R the latest FileRights whose limit returned Ok
  applied,        \* descriptor -> the FileRights values whose limit returned Ok
  ioctl_limited,  \* descriptor -> IoctlRights::limit has been called on it
  ioctl_applied,  \* descriptor -> a limit that restricts its ioctls has returned Ok
  rights,         \* a process-local FileRights value under construction
  allowed,        \* the names of the rights allowed on it so far
  other,          \* a second process-local FileRights value
  phase,          \* "ctor" while the static constructors run, then "main"
  registry,       \* service name -> service_register calls made for it
  handles,        \* the channel owners created so far: Casper and agents
  channels,       \* channel id -> the cap_channel_t and what is behind it
  client          \* the call the main thread is blocked in, if any

kernel_vars == <<capsupport, capmode, fde_rights, fde_fcntls, fde_ioctls>>

effect_vars == <<written, looked_up>>

process_vars == <<entered_ok, seen_sandboxed>>

file_hist_vars == <<last_ok, applied>>

ioctl_hist_vars == <<ioctl_limited, ioctl_applied>>

local_vars == <<rights, allowed>>

algebra_vars == <<other>>

casper_vars == <<phase, registry, handles, channels, client>>

builder_vars == <<builder>>

service_vars == <<service>>

vars == <<service, builder, capsupport, capmode, fde_rights, fde_fcntls, fde_ioctls, written,
          looked_up, ret, entered_ok, seen_sandboxed, last_ok, applied,
          ioctl_limited, ioctl_applied, rights, allowed, other, phase, registry, handles,
          channels, client>>

\* the descriptors the process opened at start: a regular file and a directory
Fds == {"file", "dir"}

\* io::Result / Result values, and a panic
Ok(v) == [tag |-> "Ok", val |-> v]

Err(e) == [tag |-> "Err", val |-> e]

Panic(msg) == [tag |-> "panic", val |-> msg]

Call(op, fd, arg, res) == [op |-> op, fd |-> fd, arg |-> arg, res |-> res]

\* a panic ends the process
Alive == ret.res.tag # "panic"

(***************************************************************************)
(* The kernel behind the calls (external to the crate).                    *)
(***************************************************************************)
\* the rights that exist: every named right of a word, the Unused ones left out
CAP_ALL ==
  LET named(i) == {n \in DOMAIN Right :
                      /\ right_to_index(Right[n]) = i
                      /\ n \notin {"Unused044", "Unused057", "Unused122", "Unused157"}}
  IN  <<UNION {Right[n] : n \in named(0)}, UNION {Right[n] : n \in named(1)}>>

\* cap_rights_is_valid: each word carries exactly its own tag in the top
\* 7 bits, and no flag bit outside the rights that exist
cap_rights_is_valid(r) ==
  \A i \in 1..2 : /\ r[i] \cap (57..63) = {57 + (i - 1)}
                  /\ r[i] \subseteq CAP_ALL[i]

\* "When a file descriptor is first created, it is assigned all possible
\* capability rights."
CAP_FCNTL_ALL == UNION {FcntlCmds[c] : c \in DOMAIN FcntlCmds}

NoIoctlLimit == [nioctls |-> -1, cmds |-> <<>>]

\* cap_rights_limit(2): the new rights must be contained in the current
\* ones; a descriptor that gives up CAP_FCNTL is left with an empty fcntl
\* mask, and one that gives up CAP_IOCTL with an empty ioctl list
sys_cap_rights_limit(fd, new) ==
  IF cap_rights_is_valid(new) /\ cap_rights_contains(fde_rights[fd], new)
  THEN [res |-> 0, errno |-> "", rights |-> new,
        fcntls |-> IF cap_rights_is_set(new, Fcntl) THEN fde_fcntls[fd] ELSE {},
        ioctls |-> IF cap_rights_is_set(new, Ioctl) THEN fde_ioctls[fd]
                   ELSE [nioctls |-> 0, cmds |-> <<>>]]
  ELSE [res |-> -1, errno |-> "ENOTCAPABLE", rights |-> fde_rights[fd],
        fcntls |-> fde_fcntls[fd], ioctls |-> fde_ioctls[fd]]

\* cap_rights_get(3)
sys_cap_rights_get(fd) == [res |-> 0, errno |-> "", rights |-> fde_rights[fd]]

\* cap_fcntls_limit(2): the new mask must be contained in the current one
sys_cap_fcntls_limit(fd, new) ==
  IF new \subseteq fde_fcntls[fd]
  THEN [res |-> 0, errno |-> "", fcntls |-> new]
  ELSE [res |-> -1, errno |-> "ENOTCAPABLE", fcntls |-> fde_fcntls[fd]]

\* cap_fcntls_get(2)
sys_cap_fcntls_get(fd) == [res |-> 0, errno |-> "", fcntls |-> fde_fcntls[fd]]

Range(s) == {s[i] : i \in 1..Len(s)}

\* cap_ioctls_limit(2): once a list is recorded, a new list may name only
\* commands of the recorded one
sys_cap_ioctls_limit(fd, cmds) ==
  IF fde_ioctls[fd].nioctls = -1 \/ Range(cmds) \subseteq Range(fde_ioctls[fd].cmds)
  THEN [res |-> 0, errno |-> "", ioctls |-> [nioctls |-> Len(cmds), cmds |-> cmds]]
  ELSE [res |-> -1, errno |-> "ENOTCAPABLE", ioctls |-> fde_ioctls[fd]]

\* cap_ioctls_get(2): returns the number of recorded commands, or
\* CAP_IOCTLS_ALL, and copies at most maxcmds of them to the buffer
sys_cap_ioctls_get(fd, maxcmds) ==
  LET k == fde_ioctls[fd] IN
  IF k.nioctls = -1
  THEN [res |-> CAP_IOCTLS_ALL, errno |-> "", buf |-> <<>>]
  ELSE [res |-> k.nioctls, errno |-> "",
        buf |-> SubSeq(k.cmds, 1, IF k.nioctls < maxcmds THEN k.nioctls ELSE maxcmds)]

\* cap_enter(2)
sys_cap_enter ==
  IF capsupport THEN [res |-> 0, errno |-> "", capmode |-> TRUE]
  ELSE [res |-> -1, errno |-> "ENOSYS", capmode |-> capmode]

\* cap_getmode(2)
sys_cap_getmode ==
  IF capsupport THEN [res |-> 0, errno |-> "", mode |-> IF capmode THEN 1 ELSE 0]
  ELSE [res |-> -1, errno |-> "ENOSYS", mode |-> 0]

\* cap_sandboxed(3)
cap_sandboxed == capsupport /\ capmode

\* open(2) of a path in the global namespace: refused in capability mode
sys_open == IF capmode THEN [res |-> -1, errno |-> "ECAPMODE"]
            ELSE [res |-> 0, errno |-> ""]

\* openat(2) relative to a directory descriptor: gated by Right::Lookup
sys_openat(dirfd) ==
  IF cap_rights_is_set(fde_rights[dirfd], Lookup) THEN [res |-> 0, errno |-> ""]
  ELSE [res |-> -1, errno |-> "ENOTCAPABLE"]

\* read(2): gated by Right::Read
sys_read(fd) ==
  IF cap_rights_is_set(fde_rights[fd], Read) THEN [res |-> 0, errno |-> ""]
  ELSE [res |-> -1, errno |-> "ENOTCAPABLE"]

\* write(2): gated by Right::Write
sys_write(fd) ==
  IF cap_rights_is_set(fde_rights[fd], Write) THEN [res |-> 0, errno |-> ""]
  ELSE [res |-> -1, errno |-> "ENOTCAPABLE"]

(***************************************************************************)
(* Inputs of the calls.                                                    *)
(***************************************************************************)
\* the rights a caller allows on the FileRights values it applies
AllowPool == {"Read", "Write", "Lookup"}

\* FileRights::new() followed by allow(r) for every r of names
RECURSIVE AllowAll(_, _)
AllowAll(self, names) ==
  IF names = {} THEN self
  ELSE LET n == CHOOSE x \in names : TRUE
       IN  AllowAll(FileRights_allow(self, Right[n]), names \ {n})

FileRightsInputs == {AllowAll(FileRights_new, S) : S \in SUBSET AllowPool}

\* the rights allowed on the values applied where the three kinds of limit
\* meet: Ioctl and Fcntl are the rights the other two kinds hang on
LimitsPool == {"Read", "Ioctl", "Fcntl"}

FileRightsLimitsInputs == {AllowAll(FileRights_new, S) : S \in SUBSET LimitsPool}

\* FcntlsBuilder::new() followed by allow(c) for every c of names
RECURSIVE FcntlAllowAll(_, _)
FcntlAllowAll(self, names) ==
  IF names = {} THEN self
  ELSE LET n == CHOOSE x \in names : TRUE
       IN  FcntlAllowAll(FcntlsBuilder_allow(self, FcntlCmds[n]), names \ {n})

\* the fcntl commands a caller allows on the FcntlRights values it applies
FcntlPool == {"GetFL", "SetFL", "GetOwn"}

FcntlRightsInputs ==
  {FcntlsBuilder_finalize(FcntlAllowAll(FcntlsBuilder_new, S)) : S \in SUBSET FcntlPool}

\* opaque ioctl command codes
IoctlCmds == {1, 2}

\* IoctlsBuilder::new() followed by allow(c) for the commands of cmds, in order
RECURSIVE IoctlAllowAll(_, _)
IoctlAllowAll(self, cmds) ==
  IF cmds = <<>> THEN self
  ELSE IoctlAllowAll(IoctlsBuilder_allow(self, Head(cmds)), Tail(cmds))

IoctlLists == UNION {[1..n -> IoctlCmds] : n \in 0..MaxIoctls}

IoctlRightsInputs ==
  {Unlimited} \cup {IoctlsBuilder_finalize(IoctlAllowAll(IoctlsBuilder_new, l)) : l \in IoctlLists}

\* a relative path of an existing file, and one with an interior NUL byte
Paths == {"foo", "fo<NUL>o"}

PathHasNul(path) == path = "fo<NUL>o"

(***************************************************************************)
(* process.rs: enter, sandboxed, get_mode.                                 *)
(***************************************************************************)
\* a faulty enter: tests `> 0` where the code tests `< 0`
enter_ret_positive ==
  IF sys_cap_enter.res > 0 THEN Err(sys_cap_enter.errno) ELSE Ok("()")

enter_ret ==
  IF sys_cap_enter.res < 0 THEN Err(sys_cap_enter.errno) ELSE Ok("()")

enter ==
  /\ Alive
  /\ capmode' = sys_cap_enter.capmode
  /\ ret' = Call("enter", "", "", enter_ret)
  /\ entered_ok' = (entered_ok \/ enter_ret.tag = "Ok")
  /\ UNCHANGED <<capsupport, fde_rights, fde_fcntls, fde_ioctls, effect_vars,
                 seen_sandboxed, file_hist_vars, ioctl_hist_vars, local_vars, algebra_vars, casper_vars, builder_vars, service_vars>>

sandboxed_ret == cap_sandboxed

sandboxed ==
  /\ Alive
  /\ ret' = Call("sandboxed", "", "", Ok(sandboxed_ret))
  /\ seen_sandboxed' = (seen_sandboxed \/ sandboxed_ret)
  /\ UNCHANGED <<kernel_vars, effect_vars, entered_ok, file_hist_vars,
                 ioctl_hist_vars, local_vars, algebra_vars, casper_vars, builder_vars, service_vars>>

\* a faulty get_mode: the test of the mode is inverted
get_mode_ret_inverted ==
  IF sys_cap_getmode.res # 0 THEN Err(sys_cap_getmode.errno)
  ELSE Ok(sys_cap_getmode.mode = 0)

get_mode_ret ==
  IF sys_cap_getmode.res # 0 THEN Err(sys_cap_getmode.errno)
  ELSE Ok(sys_cap_getmode.mode # 0)

get_mode ==
  /\ Alive
  /\ ret' = Call("get_mode", "", "", get_mode_ret)
  /\ seen_sandboxed' = (seen_sandboxed \/ (get_mode_ret.tag = "Ok" /\ get_mode_ret.val))
  /\ UNCHANGED <<kernel_vars, effect_vars, entered_ok, file_hist_vars,
                 ioctl_hist_vars, local_vars, algebra_vars, casper_vars, builder_vars, service_vars>>

(***************************************************************************)
(* right.rs: FileRights::limit and FileRights::from_file.                  *)
(***************************************************************************)
\* a faulty limit: drops the `res < 0` test and returns Ok(()) whatever the
\* kernel answered
FileRights_limit_ret_unchecked(self, fd) == Ok("()")

FileRights_limit_ret(self, fd) ==
  LET k == sys_cap_rights_limit(fd, self)
  IN  IF k.res < 0 THEN Err(k.errno) ELSE Ok("()")

FileRights_limit(self, fd) ==
  /\ Alive
  /\ fde_rights' = [fde_rights EXCEPT ![fd] = sys_cap_rights_limit(fd, self).rights]
  /\ fde_fcntls' = [fde_fcntls EXCEPT ![fd] = sys_cap_rights_limit(fd, self).fcntls]
  /\ fde_ioctls' = [fde_ioctls EXCEPT ![fd] = sys_cap_rights_limit(fd, self).ioctls]
  /\ ret' = Call("FileRights::limit", fd, self, FileRights_limit_ret(self, fd))
  /\ last_ok' = IF FileRights_limit_ret(self, fd).tag = "Ok"
                THEN [last_ok EXCEPT ![fd] = <<self>>] ELSE last_ok
  /\ ioctl_applied' =
       [ioctl_applied EXCEPT ![fd] =
          @ \/ (/\ FileRights_limit_ret(self, fd).tag = "Ok"
                /\ ~FileRights_is_set(self, Ioctl))]
  /\ UNCHANGED <<capsupport, capmode, effect_vars, process_vars, ioctl_limited,
                 local_vars, algebra_vars, casper_vars, builder_vars, service_vars>>

\* a faulty from_file: hands back a fresh FileRights::new() value and never
\* asks the kernel
FileRights_from_file_ret_fresh(fd) == Ok(FileRights_new)

FileRights_from_file_ret(fd) ==
  LET k == sys_cap_rights_get(fd)
  IN  IF k.res < 0 THEN Err(k.errno)
      ELSE IF ~cap_rights_is_valid(k.rights) THEN Panic("assertion failed")
      ELSE Ok(k.rights)

FileRights_from_file(fd) ==
  /\ Alive
  /\ ret' = Call("FileRights::from_file", fd, "", FileRights_from_file_ret(fd))
  /\ UNCHANGED <<kernel_vars, effect_vars, process_vars, file_hist_vars,
                 ioctl_hist_vars, local_vars, algebra_vars, casper_vars, builder_vars, service_vars>>

(***************************************************************************)
(* fcntl.rs: FcntlRights::limit and FcntlRights::from_file.                *)
(***************************************************************************)
FcntlRights_limit_ret(self, fd) ==
  LET k == sys_cap_fcntls_limit(fd, self)
  IN  IF k.res < 0 THEN Err(k.errno) ELSE Ok("()")

FcntlRights_limit(self, fd) ==
  /\ Alive
  /\ fde_fcntls' = [fde_fcntls EXCEPT ![fd] = sys_cap_fcntls_limit(fd, self).fcntls]
  /\ ret' = Call("FcntlRights::limit", fd, self, FcntlRights_limit_ret(self, fd))
  /\ UNCHANGED <<capsupport, capmode, fde_rights, fde_ioctls, effect_vars,
                 process_vars, file_hist_vars, ioctl_hist_vars, local_vars, algebra_vars, casper_vars, builder_vars, service_vars>>

\* a faulty from_file: returns the zeroed mask it started from, not the one
\* cap_fcntls_get filled in
FcntlRights_from_file_ret_zeroed(fd) ==
  LET k == sys_cap_fcntls_get(fd)
  IN  IF k.res < 0 THEN Err(k.errno) ELSE Ok({})

FcntlRights_from_file_ret(fd) ==
  LET k == sys_cap_fcntls_get(fd)
  IN  IF k.res < 0 THEN Err(k.errno) ELSE Ok(k.fcntls)

FcntlRights_from_file(fd) ==
  /\ Alive
  /\ ret' = Call("FcntlRights::from_file", fd, "", FcntlRights_from_file_ret(fd))
  /\ UNCHANGED <<kernel_vars, effect_vars, process_vars, file_hist_vars,
                 ioctl_hist_vars, local_vars, algebra_vars, casper_vars, builder_vars, service_vars>>

(***************************************************************************)
(* ioctl.rs: IoctlRights::limit and IoctlRights::from_file.                *)
(***************************************************************************)
\* a faulty limit: an Unlimited value is sent to the kernel as an empty list
IoctlRights_limit_kernel_empty(self, fd) == sys_cap_ioctls_limit(fd, self.cmds)

\* limit calls the kernel only for a Limited value
IoctlRights_limit_kernel(self, fd) ==
  IF self.kind = "Limited" THEN sys_cap_ioctls_limit(fd, self.cmds)
  ELSE [res |-> 0, errno |-> "", ioctls |-> fde_ioctls[fd]]

IoctlRights_limit_ret(self, fd) ==
  LET k == IoctlRights_limit_kernel(self, fd)
  IN  IF self.kind = "Limited" /\ k.res < 0 THEN Err(k.errno) ELSE Ok("()")

IoctlRights_limit(self, fd) ==
  /\ Alive
  /\ fde_ioctls' = [fde_ioctls EXCEPT ![fd] = IoctlRights_limit_kernel(self, fd).ioctls]
  /\ ret' = Call("IoctlRights::limit", fd, self, IoctlRights_limit_ret(self, fd))
  /\ ioctl_limited' = [ioctl_limited EXCEPT ![fd] = TRUE]
  /\ ioctl_applied' =
       [ioctl_applied EXCEPT ![fd] =
          @ \/ (self.kind = "Limited" /\ IoctlRights_limit_ret(self, fd).tag = "Ok")]
  /\ UNCHANGED <<capsupport, capmode, fde_rights, fde_fcntls, effect_vars,
                 process_vars, file_hist_vars, local_vars, algebra_vars, casper_vars, builder_vars, service_vars>>

\* a faulty from_file: an empty list read back from the kernel is reported
\* as Unlimited
IoctlRights_from_file_ret_collapsed(fd, len) ==
  LET k == sys_cap_ioctls_get(fd, len)
  IN  IF k.res = CAP_IOCTLS_ALL \/ k.res = 0 THEN Ok(Unlimited)
      ELSE IF k.res > 0
           THEN IF k.res > len THEN Panic("cap_ioctls_get overflowed our buffer")
                ELSE Ok(Limited(SubSeq(k.buf, 1, k.res)))
           ELSE Err(k.errno)

\* a faulty from_file: set_len is one short
IoctlRights_from_file_ret_short(fd, len) ==
  LET k == sys_cap_ioctls_get(fd, len)
  IN  IF k.res = CAP_IOCTLS_ALL THEN Ok(Unlimited)
      ELSE IF k.res >= 0
           THEN IF k.res > len THEN Panic("cap_ioctls_get overflowed our buffer")
                ELSE Ok(Limited(SubSeq(k.buf, 1, k.res - 1)))
           ELSE Err(k.errno)

IoctlRights_from_file_ret(fd, len) ==
  LET k == sys_cap_ioctls_get(fd, len)
  IN  IF k.res = CAP_IOCTLS_ALL THEN Ok(Unlimited)
      ELSE IF k.res >= 0
           THEN IF k.res > len THEN Panic("cap_ioctls_get overflowed our buffer")
                ELSE Ok(Limited(SubSeq(k.buf, 1, k.res)))
           ELSE Err(k.errno)

IoctlRights_from_file(fd, len) ==
  /\ Alive
  /\ ret' = Call("IoctlRights::from_file", fd, len, IoctlRights_from_file_ret(fd, len))
  /\ UNCHANGED <<kernel_vars, effect_vars, process_vars, file_hist_vars,
                 ioctl_hist_vars, local_vars, algebra_vars, casper_vars, builder_vars, service_vars>>

(***************************************************************************)
(* util.rs: Directory; and reads and writes of a File.                     *)
(***************************************************************************)
\* a faulty Directory::new: the `?` on File::open is lost
Directory_new_ret_unchecked == Ok("Directory")

Directory_new_ret ==
  IF sys_open.res < 0 THEN Err(sys_open.errno) ELSE Ok("Directory")

Directory_new ==
  /\ Alive
  /\ ret' = Call("Directory::new", "", "", Directory_new_ret)
  /\ UNCHANGED <<kernel_vars, effect_vars, process_vars, file_hist_vars,
                 ioctl_hist_vars, local_vars, algebra_vars, casper_vars, builder_vars, service_vars>>

Directory_open_file_ret(self, path) ==
  IF PathHasNul(path) THEN Err("not a valid C path")
  ELSE IF sys_openat(self).res < 0 THEN Err(sys_openat(self).errno)
  ELSE Ok("File")

Directory_open_file(self, path) ==
  /\ Alive
  /\ looked_up[self] < MaxOpens
  /\ ret' = Call("Directory::open_file", self, path, Directory_open_file_ret(self, path))
  /\ looked_up' = IF Directory_open_file_ret(self, path).tag = "Ok"
                  THEN [looked_up EXCEPT ![self] = @ + 1] ELSE looked_up
  /\ UNCHANGED <<kernel_vars, written, process_vars, file_hist_vars,
                 ioctl_hist_vars, local_vars, algebra_vars, casper_vars, builder_vars, service_vars>>

File_read(fd) ==
  /\ Alive
  /\ ret' = Call("File::read", fd, "",
                 IF sys_read(fd).res < 0 THEN Err(sys_read(fd).errno) ELSE Ok("()"))
  /\ UNCHANGED <<kernel_vars, effect_vars, process_vars, file_hist_vars,
                 ioctl_hist_vars, local_vars, algebra_vars, casper_vars, builder_vars, service_vars>>

File_write(fd) ==
  /\ Alive
  /\ written[fd] < MaxWrites
  /\ ret' = Call("File::write", fd, "",
                 IF sys_write(fd).res < 0 THEN Err(sys_write(fd).errno) ELSE Ok("()"))
  /\ written' = IF sys_write(fd).res < 0 THEN written
                ELSE [written EXCEPT ![fd] = @ + 1]
  /\ UNCHANGED <<kernel_vars, looked_up, process_vars, file_hist_vars,
                 ioctl_hist_vars, local_vars, algebra_vars, casper_vars, builder_vars, service_vars>>

(***************************************************************************)
(* right.rs: building a process-local FileRights value.                    *)
(***************************************************************************)
Local_allow(r) ==
  /\ Cardinality(allowed) < MaxOps
  /\ rights' = FileRights_allow(rights, Right[r])
  /\ allowed' = allowed \cup {r}
  /\ UNCHANGED <<kernel_vars, effect_vars, ret, process_vars, file_hist_vars,
                 ioctl_hist_vars, algebra_vars, casper_vars, builder_vars, service_vars>>

(***************************************************************************)
(* right.rs: the calls on two process-local FileRights values, self (held  *)
(* in rights) and other.                                                   *)
(***************************************************************************)
\* the rights the callers name: Null, rights of both words, a composite and
\* one of the Unused enumerators
AlgebraPool == {"Null", "Read", "Write", "Seek", "Ioctl", "Unused044"}

\* is_valid and is_valid_priv: what cap_rights_is_valid says of the value
FileRights_is_valid(self) == cap_rights_is_valid(self)

\* allow, or the deprecated set, on either value
FileRights_allow_call(op, which, r) ==
  /\ Alive
  /\ rights' = IF which = "self" THEN FileRights_allow(rights, Right[r]) ELSE rights
  /\ other' = IF which = "other" THEN FileRights_allow(other, Right[r]) ELSE other
  /\ ret' = Call(op, which, r, Ok("()"))
  /\ UNCHANGED <<kernel_vars, effect_vars, process_vars, file_hist_vars,
                 ioctl_hist_vars, allowed, casper_vars, builder_vars, service_vars>>

\* deny, or the deprecated clear, on either value
FileRights_deny_call(op, which, r) ==
  /\ Alive
  /\ rights' = IF which = "self" THEN FileRights_deny(rights, Right[r]) ELSE rights
  /\ other' = IF which = "other" THEN FileRights_deny(other, Right[r]) ELSE other
  /\ ret' = Call(op, which, r, Ok("()"))
  /\ UNCHANGED <<kernel_vars, effect_vars, process_vars, file_hist_vars,
                 ioctl_hist_vars, allowed, casper_vars, builder_vars, service_vars>>

\* self.merge(&other): the call records the operands it was given
FileRights_merge ==
  /\ Alive
  /\ rights' = FileRights_merge_val(rights, other)
  /\ ret' = Call("FileRights::merge", "self", <<rights, other>>,
                 FileRights_merge_ret(rights, other))
  /\ UNCHANGED <<kernel_vars, effect_vars, process_vars, file_hist_vars,
                 ioctl_hist_vars, allowed, other, casper_vars, builder_vars, service_vars>>

\* self.remove(&other)
FileRights_remove ==
  /\ Alive
  /\ rights' = FileRights_remove_val(rights, other)
  /\ ret' = Call("FileRights::remove", "self", <<rights, other>>,
                 FileRights_remove_ret(rights, other))
  /\ UNCHANGED <<kernel_vars, effect_vars, process_vars, file_hist_vars,
                 ioctl_hist_vars, allowed, other, casper_vars, builder_vars, service_vars>>

\* self.contains(&other): both operands are shared references
FileRights_contains_call ==
  /\ Alive
  /\ ret' = Call("FileRights::contains", "self", <<rights, other>>,
                 Ok(FileRights_contains(rights, other)))
  /\ UNCHANGED <<kernel_vars, effect_vars, process_vars, file_hist_vars,
                 ioctl_hist_vars, local_vars, algebra_vars, casper_vars, builder_vars, service_vars>>

(***************************************************************************)
(* casper/mod.rs and examples/getuid.rs: the Casper client, the broker     *)
(* behind its channels (libcasper, external to the crate) and the getuid   *)
(* service.  Error numbers are i32 and u64 words, written as the set of    *)
(* their bit positions.                                                    *)
(***************************************************************************)
MaxHandles == 3

MaxRequests == 4

MaxCommands == 2

\* the services declared with service!: examples/getuid.rs declares one
Services == {"getuid"}

\* errno values: 93, 2, 54 and 12
ENOTCAPABLE == {0, 2, 3, 4, 6}

ENOENT == {1}

ECONNRESET == {1, 2, 4, 5}

ENOMEM == {2, 3}

\* (uint64_t)error: an int widened to the number stored under "error"
int_to_u64(r) == IF 31 \in r THEN r \cup (32..63) ELSE r

\* e as i32: the low 32 bits of a u64
u64_as_i32(e) == e \cap (0..31)

\* an Option<&NvList> or a nullable nvlist pointer: <<>> or <<the list>>
None == <<>>

Some(v) == <<v>>

(***************************************************************************)
(* casper/mod.rs: Service::c_cmd and Service::c_limit for any service.     *)
(* The broker (libcasper) calls them with raw nvlist pointers: the         *)
(* envelopes.  An envelope is [null, owner, destroys]: owner is who will   *)
(* release it, destroys counts the nvlist_destroy calls made on it.        *)
(***************************************************************************)
\* number of calls the broker makes into one service process
MaxServiceCalls == 2

\* the io::Error values a handler returns: an OS error code (0 included:
\* io::Error::from_raw_os_error takes any i32) or an error without one
io_Error ==
  {[repr |-> "Os", code |-> c] : c \in {{}, ENOENT, ENOTCAPABLE}}
    \cup {[repr |-> "Custom", code |-> {}]}

\* io::Error::raw_os_error
raw_os_error(e) == IF e.repr = "Os" THEN Some(e.code) ELSE None

\* an envelope as the broker passes it
Envelope(null) == [null |-> null, owner |-> "broker", destroys |-> 0]

\* NvList::from_ptr: a wrapper that owns the nvlist
NvList_from_ptr(env) == [env EXCEPT !.owner = "NvList"]

\* From<NvList> for *mut nvlist_t: the wrapper gives the nvlist up
NvList_into(env) == [env EXCEPT !.owner = "broker"]

\* Drop for NvList at the end of the scope: nvlist_destroy
NvList_drop(env) ==
  IF env.owner = "NvList" THEN [env EXCEPT !.owner = "nobody", !.destroys = @ + 1]
  ELSE env

\* the broker's nvlist_destroy
nvlist_destroy(env) ==
  IF env.null THEN env ELSE [env EXCEPT !.owner = "nobody", !.destroys = @ + 1]

\* if ptr.is_null() { None } else { Some(NvList::from_ptr(ptr)) }
NvList_optional(env) == IF env.null THEN env ELSE NvList_from_ptr(env)

\* match handler result { Ok(()) => 0, Err(e) => e.raw_os_error().unwrap() };
\* a panic, the handler's or unwrap's, cannot leave an extern "C" function:
\* the process aborts
c_result(res) ==
  IF res.tag = "Ok" THEN [returned |-> TRUE, r |-> {}]
  ELSE IF res.tag = "Err" /\ raw_os_error(res.val) # None
    THEN [returned |-> TRUE, r |-> raw_os_error(res.val)[1]]
    ELSE [returned |-> FALSE, r |-> {}]

\* one call: what the handler returned, what the callback returned, and the
\* envelopes as the callback left them
ServiceCall(fn, res, framed, env) ==
  [fn |-> fn, res |-> res, returned |-> framed.returned, r |-> framed.r,
   env |-> env, released |-> FALSE]

\* a faulty c_cmd: nvlin is not handed back
c_cmd_keeps_nvlin(limits, res) ==
  LET wrapped == [limits |-> NvList_optional(limits),
                  nvlin |-> NvList_from_ptr(Envelope(FALSE)),
                  nvlout |-> NvList_from_ptr(Envelope(FALSE))]
      framed == c_result(res)
      back == [wrapped EXCEPT !.limits = NvList_into(@), !.nvlout = NvList_into(@)]
  IN  ServiceCall("c_cmd", res, framed,
        IF framed.returned THEN [n \in DOMAIN back |-> NvList_drop(back[n])]
        ELSE wrapped)

\* Service::c_cmd, the handler's result being res
c_cmd(limits, res) ==
  LET wrapped == [limits |-> NvList_optional(limits),
                  nvlin |-> NvList_from_ptr(Envelope(FALSE)),
                  nvlout |-> NvList_from_ptr(Envelope(FALSE))]
      framed == c_result(res)
      back == [n \in DOMAIN wrapped |-> NvList_into(wrapped[n])]
  IN  ServiceCall("c_cmd", res, framed,
        IF framed.returned THEN [n \in DOMAIN back |-> NvList_drop(back[n])]
        ELSE wrapped)

\* Service::c_limit, the handler's result being res
c_limit(oldlimits, newlimits, res) ==
  LET wrapped == [oldlimits |-> NvList_optional(oldlimits),
                  newlimits |-> NvList_optional(newlimits)]
      framed == c_result(res)
      back == [n \in DOMAIN wrapped |-> NvList_into(wrapped[n])]
  IN  ServiceCall("c_limit", res, framed,
        IF framed.returned THEN [n \in DOMAIN back |-> NvList_drop(back[n])]
        ELSE wrapped)

\* a service process that has not been called
NoService == [alive |-> TRUE, calls |-> <<>>]

\* CapUid::cmd: what the handler returns for a command under the limits
\* the framework hands it; nvout is the set of keys it inserted
CapUid_cmd(cmd, limits) ==
  IF cmd # "getuid" THEN [res |-> Panic("assertion failed"), nvout |-> {}]
  ELSE IF limits # None THEN [res |-> Err(ENOTCAPABLE), nvout |-> {}]
  ELSE [res |-> Ok("()"), nvout |-> {"uid"}]

\* CapUid::limit accepts every limit
CapUid_limit(old, new) == Ok("()")

\* a faulty c_cmd: the limits pointer is taken for null
Service_c_cmd_unlimited(cmd, limits) ==
  LET r == CapUid_cmd(cmd, None)
  IN  [aborts |-> r.res.tag = "panic",
       error |-> IF r.res.tag = "Err" THEN r.res.val ELSE {},
       nvout |-> r.nvout,
       handed |-> None]

\* a faulty c_cmd: the null check is inverted
Service_c_cmd_inverted(cmd, limits) ==
  LET handed == IF limits = None THEN Some("{}") ELSE None
      r == CapUid_cmd(cmd, handed)
  IN  [aborts |-> r.res.tag = "panic",
       error |-> IF r.res.tag = "Err" THEN r.res.val ELSE {},
       nvout |-> r.nvout,
       handed |-> handed]

\* Service::c_cmd: a null limits pointer becomes None; Ok(()) becomes 0 and
\* Err(e) the raw OS error; a panic in the handler cannot unwind out of an
\* extern "C" function and ends the service process; handed is what the
\* handler was given as limits
Service_c_cmd(cmd, limits) ==
  LET r == CapUid_cmd(cmd, limits)
  IN  [aborts |-> r.res.tag = "panic",
       error |-> IF r.res.tag = "Err" THEN r.res.val ELSE {},
       nvout |-> r.nvout,
       handed |-> limits]

\* Service::c_limit
Service_c_limit(old, new) ==
  LET r == CapUid_limit(old, new)
  IN  IF r.tag = "Ok" THEN {} ELSE r.val

\* the limits a client can propose: nvlists, named by their keys
Limits == {"{}", "{uid}"}

\* a request envelope; seq numbers the requests of a channel
Request(cmd, seq, limits) == [cmd |-> cmd, seq |-> seq, limits |-> limits]

\* a reply envelope: "error" is <<>> when the key is absent; re is the
\* request it answers
Reply(re, error, nvout, limits) ==
  [null |-> FALSE, re |-> re, error |-> error, nvout |-> nvout, limits |-> limits]

\* cap_xfer_nvlist returned a null pointer
NullReply == [null |-> TRUE, re |-> 0, error |-> None, nvout |-> {}, limits |-> None]

\* service_message in libcasper: the service process takes one request of
\* one connection at a time; limit_set calls the limit callback with the
\* connection's limits and, on 0, records the new limits for that
\* connection; limit_get returns them; every other command goes to the
\* command callback with the connection's limits; the "error" number is
\* added to every reply
service_message_limits(conn, req) ==
  IF req.cmd = "limit_set" /\ Service_c_limit(conn.limits, req.limits) = {}
  THEN req.limits
  ELSE conn.limits

service_message_aborts(conn, req) ==
  /\ req.cmd \notin {"limit_set", "limit_get"}
  /\ Service_c_cmd(req.cmd, conn.limits).aborts

service_message_reply(conn, req) ==
  IF req.cmd = "limit_set"
  THEN Reply(req.seq, Some(int_to_u64(Service_c_limit(conn.limits, req.limits))), {}, None)
  ELSE IF req.cmd = "limit_get"
  THEN Reply(req.seq, Some({}), IF conn.limits = None THEN {} ELSE {"limits"}, conn.limits)
  ELSE Reply(req.seq, Some(int_to_u64(Service_c_cmd(req.cmd, conn.limits).error)),
             Service_c_cmd(req.cmd, conn.limits).nvout, None)

\* a faulty xfer_nvlist: every reply with the key is taken for a success
xfer_nvlist_ret_lenient(r) ==
  IF r.null THEN Err(ECONNRESET)
  ELSE IF r.error = None THEN Panic("zygote did not return error code")
  ELSE Ok(r)

\* xfer_nvlist, once cap_xfer_nvlist has returned r
xfer_nvlist_ret(r) ==
  IF r.null THEN Err(ECONNRESET)
  ELSE IF r.error = None THEN Panic("zygote did not return error code")
  ELSE IF r.error[1] = {} THEN Ok(r)
  ELSE Err(u64_as_i32(r.error[1]))

\* CapAgent::uid, once xfer_nvlist has returned
CapAgent_uid_ret(r) ==
  IF xfer_nvlist_ret(r).tag # "Ok" THEN xfer_nvlist_ret(r)
  ELSE IF "uid" \in r.nvout THEN Ok("uid")
  ELSE Panic("zygote did not return the expected value")

\* limit_get, once cap_limit_get has returned: no limits recorded reads as
\* an empty list
limit_get_ret(r) ==
  IF r.null \/ r.error # Some({}) THEN Err(ECONNRESET)
  ELSE IF r.limits = None THEN Ok("{}")
  ELSE Ok(r.limits[1])

\* limit_set, once cap_limit_set has returned
limit_set_ret(r) ==
  IF r.null THEN Err(ECONNRESET)
  ELSE IF r.error # Some({}) THEN Err(u64_as_i32(r.error[1]))
  ELSE Ok("()")

\* a channel that was not created yet
NoChannel ==
  [kind |-> "none", closes |-> 0, late |-> FALSE, snapshot |-> None,
   limits |-> None, alive |-> FALSE, inbox |-> <<>>, outbox |-> <<>>,
   sent |-> 0, acked |-> None, seen |-> None]

\* cap_init: fork the broker, which keeps the registrations made so far
cap_init(reg) == [NoChannel EXCEPT !.kind = "casper", !.alive = TRUE,
                                   !.snapshot = Some(reg)]

\* cap_service_open and cap_clone on a service: a connection of its own,
\* with no limits recorded
cap_service_open == [NoChannel EXCEPT !.kind = "service", !.alive = TRUE]

\* cap_clone on the broker's channel: another channel to the same broker
cap_clone(chan) == [NoChannel EXCEPT !.kind = "casper", !.alive = TRUE,
                                     !.snapshot = chan.snapshot]

\* service_register appends to the list of this process
service_register(reg, name) == [reg EXCEPT ![name] = @ + 1]

Idle == [pc |-> "idle", h |-> 0, op |-> "", seq |-> 0, arg |-> Request("", 0, None)]

Waiting(h, op, seq, arg) == [pc |-> "wait", h |-> h, op |-> op, seq |-> seq, arg |-> arg]

noncasper_vars == <<kernel_vars, effect_vars, process_vars, file_hist_vars,
                    ioctl_hist_vars, local_vars, algebra_vars, builder_vars, service_vars>>

\* the #[ctor] of service!: runs once, before main
casper_service_init(name) ==
  /\ Alive
  /\ phase = "ctor"
  /\ registry[name] = 0
  /\ registry' = service_register(registry, name)
  /\ UNCHANGED <<noncasper_vars, ret, phase, handles, channels, client>>

\* a faulty start: main does not wait for the constructors
main_may_start_early(reg) == TRUE

\* main starts when every static constructor has run
main_may_start(reg) == \A name \in Services : reg[name] > 0

main_starts ==
  /\ Alive
  /\ phase = "ctor"
  /\ main_may_start(registry)
  /\ phase' = "main"
  /\ UNCHANGED <<noncasper_vars, ret, registry, handles, channels, client>>

\* the id of the next channel object
NewChan == Len(handles) + 1

Owner(kind, chan) == [kind |-> kind, chan |-> chan, live |-> TRUE]

\* an operation through owner h reaches its channel; one that reaches a
\* closed channel is a use after close
Touch(chans, h) ==
  [chans EXCEPT ![handles[h].chan].late = @ \/ chans[handles[h].chan].closes > 0]

CanUse(h, kind) ==
  /\ h \in 1..Len(handles)
  /\ handles[h].live
  /\ handles[h].kind = kind

\* Casper::new
Casper_new(ok) ==
  /\ Alive
  /\ phase = "main"
  /\ client = Idle
  /\ Len(handles) < MaxHandles
  /\ IF ok
     THEN /\ channels' = [channels EXCEPT ![NewChan] = cap_init(registry)]
          /\ handles' = Append(handles, Owner("Casper", NewChan))
          /\ ret' = Call("Casper::new", NewChan, "", Ok(NewChan))
     ELSE /\ ret' = Call("Casper::new", 0, "", Err(ENOMEM))
          /\ UNCHANGED <<handles, channels>>
  /\ UNCHANGED <<noncasper_vars, phase, registry, client>>

\* CasperExt::uid: Casper::service_open(SERVICE_NAME) wrapped in the agent
Casper_uid(h) ==
  /\ Alive
  /\ client = Idle
  /\ CanUse(h, "Casper")
  /\ Len(handles) < MaxHandles
  /\ IF /\ channels[handles[h].chan].snapshot # None
        /\ channels[handles[h].chan].snapshot[1]["getuid"] > 0
     THEN /\ channels' = [Touch(channels, h) EXCEPT ![NewChan] = cap_service_open]
          /\ handles' = Append(handles, Owner("CapAgent", NewChan))
          /\ ret' = Call("Casper::service_open", h, "getuid", Ok(NewChan))
     ELSE /\ channels' = Touch(channels, h)
          /\ ret' = Call("Casper::service_open", h, "getuid", Err(ENOENT))
          /\ UNCHANGED handles
  /\ UNCHANGED <<noncasper_vars, phase, registry, client>>

\* a faulty try_clone: the new owner holds the same pointer
Casper_try_clone_chan_copied(self, fresh) == self

\* Casper::try_clone: the new owner holds what cap_clone returned
Casper_try_clone_chan(self, fresh) == fresh

Casper_try_clone(h, ok) ==
  /\ Alive
  /\ client = Idle
  /\ CanUse(h, "Casper")
  /\ Len(handles) < MaxHandles
  /\ IF ok
     THEN /\ channels' = [Touch(channels, h) EXCEPT
                            ![NewChan] = cap_clone(channels[handles[h].chan])]
          /\ handles' = Append(handles,
                 Owner("Casper", Casper_try_clone_chan(handles[h].chan, NewChan)))
          /\ ret' = Call("Casper::try_clone", h, "",
                         Ok(Casper_try_clone_chan(handles[h].chan, NewChan)))
     ELSE /\ channels' = Touch(channels, h)
          /\ ret' = Call("Casper::try_clone", h, "", Err(ENOMEM))
          /\ UNCHANGED handles
  /\ UNCHANGED <<noncasper_vars, phase, registry, client>>

\* impl Drop for CapChannel: the owner goes away and cap_close runs
CapChannel_drop(h) ==
  /\ Alive
  /\ client = Idle
  /\ h \in 1..Len(handles)
  /\ handles[h].live
  /\ handles' = [handles EXCEPT ![h].live = FALSE]
  /\ channels' = [channels EXCEPT ![handles[h].chan].closes = @ + 1,
                                  ![handles[h].chan].alive = FALSE]
  /\ ret' = Call("CapChannel::drop", h, "", Ok("()"))
  /\ UNCHANGED <<noncasper_vars, phase, registry, client>>

\* a faulty receiver: &self, so that a second call can start meanwhile
xfer_may_start_shared(c) == TRUE

\* the calls take &mut self and block: one at a time
xfer_may_start(c) == c = Idle

\* cap_xfer_nvlist, first half: the request goes out on the channel.  A
\* peer that is gone makes the call fail at once.
Send(h, op, req) ==
  /\ Alive
  /\ xfer_may_start(client)
  /\ CanUse(h, "CapAgent")
  /\ channels[handles[h].chan].sent < MaxRequests
  /\ IF channels[handles[h].chan].alive
     THEN /\ channels' = [Touch(channels, h) EXCEPT
                            ![handles[h].chan].inbox = Append(@, req),
                            ![handles[h].chan].sent = @ + 1]
          /\ client' = Waiting(h, op, req.seq, req)
          /\ UNCHANGED ret
     ELSE /\ channels' = [Touch(channels, h) EXCEPT ![handles[h].chan].sent = @ + 1]
          /\ client' = Idle
          /\ ret' = Call(op, h, NullReply, Err(ECONNRESET))
  /\ UNCHANGED <<noncasper_vars, phase, registry, handles>>

NextSeq(h) == channels[handles[h].chan].sent + 1

\* CapAgent::uid: xfer_nvlist({"cmd": "getuid"})
CapAgent_uid(h) ==
  /\ CanUse(h, "CapAgent")
  /\ Send(h, "CapAgent::uid", Request("getuid", NextSeq(h), None))

\* CapAgent::limit_uid: limit_get first
CapAgent_limit_uid(h) ==
  /\ CanUse(h, "CapAgent")
  /\ Send(h, "CapAgent::limit_uid", Request("limit_get", NextSeq(h), None))

\* the commands an agent may name in xfer_nvlist
Commands == {"getuid", "other"}

\* xfer_nvlist({"cmd": cmd}) from an agent's own method
xfer_nvlist(h, cmd) ==
  /\ CanUse(h, "CapAgent")
  /\ channels[handles[h].chan].sent < MaxCommands
  /\ Send(h, "xfer_nvlist", Request(cmd, NextSeq(h), None))

\* limit_set(limits) from an agent's own method
limit_set(h, limits) ==
  /\ CanUse(h, "CapAgent")
  /\ channels[handles[h].chan].sent < MaxCommands
  /\ Send(h, "limit_set", Request("limit_set", NextSeq(h), Some(limits)))

\* the service process handles the next request of a connection
service_message(c) ==
  /\ Alive
  /\ channels[c].kind = "service"
  /\ channels[c].alive
  /\ channels[c].inbox # <<>>
  /\ LET req == Head(channels[c].inbox)
     IN  channels' =
           IF service_message_aborts(channels[c], req)
           THEN [channels EXCEPT ![c].alive = FALSE, ![c].inbox = <<>>]
           ELSE [channels EXCEPT
                   ![c].inbox = Tail(@),
                   ![c].outbox = Append(@, service_message_reply(channels[c], req)),
                   ![c].limits = service_message_limits(channels[c], req),
                   ![c].seen = IF req.cmd \in {"limit_set", "limit_get"} THEN @
                               ELSE Some(Service_c_cmd(req.cmd, channels[c].limits).handed)]
  /\ ret' = Call("service_message", c, Head(channels[c].inbox), Ok("()"))
  /\ UNCHANGED <<noncasper_vars, phase, registry, handles, client>>

\* cap_xfer_nvlist, second half: the blocked call takes the next reply of
\* its channel, or a null pointer when the peer is gone, and the method
\* finishes; limit_uid goes on with limit_set after its limit_get
Receive ==
  /\ Alive
  /\ client.pc = "wait"
  /\ LET c == handles[client.h].chan
         gone == ~channels[c].alive /\ channels[c].outbox = <<>>
         r == IF gone THEN NullReply ELSE Head(channels[c].outbox)
         taken == IF gone THEN channels
                  ELSE [channels EXCEPT ![c].outbox = Tail(@)]
     IN  /\ gone \/ channels[c].outbox # <<>>
         /\ CASE client.op = "CapAgent::uid" ->
                   /\ ret' = Call(client.op, client.h, r, CapAgent_uid_ret(r))
                   /\ channels' = taken
                   /\ client' = Idle
              [] client.op = "xfer_nvlist" ->
                   /\ ret' = Call(client.op, client.h, r, xfer_nvlist_ret(r))
                   /\ channels' = taken
                   /\ client' = Idle
              [] client.op = "limit_set" ->
                   /\ ret' = Call(client.op, client.h, r, limit_set_ret(r))
                   /\ channels' = IF limit_set_ret(r).tag = "Ok"
                                  THEN [taken EXCEPT ![c].acked = client.arg.limits]
                                  ELSE taken
                   /\ client' = Idle
              [] client.op = "CapAgent::limit_uid" /\ client.arg.cmd = "limit_get" ->
                   IF limit_get_ret(r).tag # "Ok"
                   THEN /\ ret' = Call(client.op, client.h, r, limit_get_ret(r))
                        /\ channels' = taken
                        /\ client' = Idle
                   ELSE IF limit_get_ret(r).val # "{}"
                   THEN /\ ret' = Call(client.op, client.h, r, Panic("assertion failed"))
                        /\ channels' = taken
                        /\ client' = Idle
                   ELSE IF ~channels[c].alive
                   THEN /\ ret' = Call(client.op, client.h, r, Err(ECONNRESET))
                        /\ channels' = taken
                        /\ client' = Idle
                   ELSE /\ channels' = [taken EXCEPT
                              ![c].inbox = Append(@, Request("limit_set", client.seq + 1,
                                                             Some(limit_get_ret(r).val))),
                              ![c].sent = @ + 1]
                        /\ client' = Waiting(client.h, client.op, client.seq + 1,
                                             Request("limit_set", client.seq + 1,
                                                     Some(limit_get_ret(r).val)))
                        /\ UNCHANGED ret
              [] client.op = "CapAgent::limit_uid" /\ client.arg.cmd = "limit_set" ->
                   /\ ret' = Call(client.op, client.h, r, limit_set_ret(r))
                   /\ channels' = IF limit_set_ret(r).tag = "Ok"
                                  THEN [taken EXCEPT ![c].acked = client.arg.limits]
                                  ELSE taken
                   /\ client' = Idle
  /\ UNCHANGED <<noncasper_vars, phase, registry, handles>>

\* the replies a peer can send: no "error" key, 0, ENOTCAPABLE, and
\* numbers that do not fit an i32: 2^32, 2^32 + 2, 2^31 and 2^64 - 1
ReplyErrors == {None, Some({}), Some(ENOTCAPABLE), Some({32}), Some({1, 32}),
                Some({31}), Some(0..63)}

\* any peer behind the channel answers the pending request, or the
\* channel breaks
peer_answers(c, error, null) ==
  /\ Alive
  /\ channels[c].kind = "service"
  /\ channels[c].alive
  /\ channels[c].inbox # <<>>
  /\ channels' =
       IF null THEN [channels EXCEPT ![c].alive = FALSE, ![c].inbox = <<>>]
       ELSE [channels EXCEPT
               ![c].inbox = Tail(@),
               ![c].outbox = Append(@, Reply(Head(channels[c].inbox).seq, error, {}, None))]
  /\ ret' = Call("peer", c, Head(channels[c].inbox), Ok("()"))
  /\ UNCHANGED <<noncasper_vars, phase, registry, handles, client>>

(***************************************************************************)
(* Specifications.                                                         *)
(***************************************************************************)
Init ==
  /\ capsupport \in BOOLEAN
  /\ capmode \in (IF capsupport THEN BOOLEAN ELSE {FALSE})
  /\ fde_rights = [fd \in Fds |-> CAP_ALL]
  /\ fde_fcntls = [fd \in Fds |-> CAP_FCNTL_ALL]
  /\ fde_ioctls = [fd \in Fds |-> NoIoctlLimit]
  /\ written = [fd \in Fds |-> 0]
  /\ looked_up = [fd \in Fds |-> 0]
  /\ ret = Call("none", "", "", Ok("()"))
  /\ entered_ok = FALSE
  /\ seen_sandboxed = FALSE
  /\ last_ok = [fd \in Fds |-> <<>>]
  /\ applied = [fd \in Fds |-> {}]
  /\ ioctl_limited = [fd \in Fds |-> FALSE]
  /\ ioctl_applied = [fd \in Fds |-> FALSE]
  /\ rights = FileRights_new
  /\ allowed = {}
  /\ other = FileRights_new
  /\ phase = "ctor"
  /\ registry = [name \in Services |-> 0]
  /\ handles = <<>>
  /\ channels = [c \in 1..MaxHandles |-> NoChannel]
  /\ client = Idle
  /\ builder = NoBuilder
  /\ service = NoService

\* the process in and out of capability mode: limiting and using descriptors
Next ==
  \/ enter
  \/ sandboxed
  \/ get_mode
  \/ \E self \in FileRightsInputs, fd \in Fds :
       FileRights_limit(self, fd) /\ UNCHANGED applied
  \/ \E fd \in Fds : FileRights_from_file(fd)
  \/ Directory_new
  \/ \E path \in Paths : Directory_open_file("dir", path)
  \/ File_read("file")
  \/ File_write("file")

Spec == Init /\ [][Next]_vars

\* the three kinds of limit on one descriptor, with the record of what was applied
NextLimits ==
  \/ \E self \in FileRightsLimitsInputs :
       /\ FileRights_limit(self, "file")
       /\ applied' = IF ret'.res.tag = "Ok"
                     THEN [applied EXCEPT !["file"] = @ \cup {self}] ELSE applied
  \/ FileRights_from_file("file")
  \/ \E self \in FcntlRightsInputs : FcntlRights_limit(self, "file")
  \/ FcntlRights_from_file("file")
  \/ \E self \in IoctlRightsInputs : IoctlRights_limit(self, "file")
  \/ \E len \in 0..MaxIoctls : IoctlRights_from_file("file", len)

\* the limits do not read the process's mode: one initial mode is followed
InitLimits == Init /\ capsupport /\ ~capmode

SpecLimits == InitLimits /\ [][NextLimits]_vars

\* allow calls on a local FileRights value
NextRights == \E r \in DOMAIN Right : Local_allow(r)

SpecRights == Init /\ [][NextRights]_vars

\* the calls that build, combine and compare two FileRights values
NextAlgebra ==
  \/ \E op \in {"FileRights::allow", "FileRights::set"}, which \in {"self", "other"},
        r \in AlgebraPool : FileRights_allow_call(op, which, r)
  \/ \E op \in {"FileRights::deny", "FileRights::clear"}, which \in {"self", "other"},
        r \in AlgebraPool : FileRights_deny_call(op, which, r)
  \/ FileRights_merge
  \/ FileRights_remove
  \/ FileRights_contains_call

SpecAlgebra == InitLimits /\ [][NextAlgebra]_vars

\* the getuid example: the constructors, main's handles and the agent's
\* two methods, with the service process behind each service channel
NextCasper ==
  \/ \E name \in Services : casper_service_init(name)
  \/ main_starts
  \/ \E ok \in BOOLEAN : Casper_new(ok)
  \/ \E h \in 1..MaxHandles : Casper_uid(h)
  \/ \E h \in 1..MaxHandles, ok \in BOOLEAN : Casper_try_clone(h, ok)
  \/ \E h \in 1..MaxHandles : CapChannel_drop(h)
  \/ \E h \in 1..MaxHandles : CapAgent_uid(h)
  \/ \E h \in 1..MaxHandles : CapAgent_limit_uid(h)
  \/ \E c \in 1..MaxHandles : service_message(c)
  \/ Receive

SpecCasper == InitLimits /\ [][NextCasper]_vars

\* an agent whose methods name any command and propose any limits
NextBroker ==
  \/ \E name \in Services : casper_service_init(name)
  \/ main_starts
  \/ \E ok \in BOOLEAN : Casper_new(ok)
  \/ \E h \in 1..MaxHandles : Casper_uid(h)
  \/ \E h \in 1..MaxHandles, cmd \in Commands : xfer_nvlist(h, cmd)
  \/ \E h \in 1..MaxHandles, limits \in Limits : limit_set(h, limits)
  \/ \E c \in 1..MaxHandles : service_message(c)
  \/ Receive

SpecBroker == InitLimits /\ [][NextBroker]_vars

\* xfer_nvlist against any peer
NextXfer ==
  \/ \E name \in Services : casper_service_init(name)
  \/ main_starts
  \/ \E ok \in BOOLEAN : Casper_new(ok)
  \/ \E h \in 1..MaxHandles : Casper_uid(h)
  \/ \E h \in 1..MaxHandles, cmd \in Commands : xfer_nvlist(h, cmd)
  \/ \E c \in 1..MaxHandles, error \in ReplyErrors, null \in BOOLEAN :
        peer_answers(c, error, null)
  \/ Receive

SpecXfer == InitLimits /\ [][NextXfer]_vars

(***************************************************************************)
(* Properties.                                                             *)
(***************************************************************************)
\* C1 (monotonic narrowing of FileRights): on every descriptor, once a
\* limit has returned Ok, FileRights::from_file returns exactly the value
\* B of the latest successful limit, B is contained in every value A
\* applied before it, and a limit call with a value C that some applied A
\* does not contain has returned Err.
C1_MonotonicNarrowing ==
  /\ \A fd \in Fds :
       last_ok[fd] # <<>> =>
         /\ FileRights_from_file_ret(fd).tag = "Ok"
         /\ FileRights_from_file_ret(fd).val = last_ok[fd][1]
         /\ \A A \in applied[fd] : FileRights_contains(A, last_ok[fd][1])
  /\ ret.op = "FileRights::limit" =>
       ((\E A \in applied[ret.fd] : ~FileRights_contains(A, ret.arg))
          => ret.res.tag = "Err")

\* A was applied, then a strictly smaller B, and a later limit with a C that
\* A does not contain was refused; from_file still returns B
C1_Witness ==
  /\ Cardinality(applied["file"]) = 2
  /\ ret.op = "FileRights::limit"
  /\ ret.res.tag = "Err"
  /\ \E A \in applied["file"] : ~FileRights_contains(A, ret.arg)
  /\ FileRights_from_file_ret("file").val = last_ok["file"][1]
  /\ last_ok["file"][1] = AllowAll(FileRights_new, {})

\* the rights a descriptor holds, as the three from_file calls report them
HeldFileRights(fd) == FileRights_from_file_ret(fd).val

HeldFcntls(fd) == FcntlRights_from_file_ret(fd).val

HeldIoctls(fd) ==
  LET r == IoctlRights_from_file_ret(fd, MaxIoctls).val
  IN  IF r.kind = "Unlimited" THEN IoctlCmds ELSE Range(r.cmds)

\* C2 (rights never expand): across every step, whether the limit call in
\* it returned Ok or Err, the file rights, the fcntl mask and the ioctl
\* commands a descriptor holds after the step are contained in those it
\* held before the step.
C2_RightsNeverExpand ==
  [][\A fd \in Fds :
        /\ FileRights_contains(HeldFileRights(fd), HeldFileRights(fd)')
        /\ HeldFcntls(fd)' \subseteq HeldFcntls(fd)
        /\ HeldIoctls(fd)' \subseteq HeldIoctls(fd)]_vars

\* all three kinds have been narrowed and the latest limit call was refused
C2_Witness ==
  /\ last_ok["file"] # <<>>
  /\ HeldFcntls("file") # CAP_FCNTL_ALL
  /\ HeldIoctls("file") = {1}
  /\ ret.op = "IoctlRights::limit"
  /\ ret.res.tag = "Err"

\* C3 (round trip): right after R.limit(fd) has returned Ok, for a
\* FileRights or an FcntlRights value R, from_file(fd) returns Ok(R), the
\* same bits in every word.
C3_RoundTrip ==
  /\ (ret.op = "FileRights::limit" /\ ret.res.tag = "Ok") =>
       /\ FileRights_from_file_ret(ret.fd).tag = "Ok"
       /\ FileRights_from_file_ret(ret.fd).val = ret.arg
  /\ (ret.op = "FcntlRights::limit" /\ ret.res.tag = "Ok") =>
       /\ FcntlRights_from_file_ret(ret.fd).tag = "Ok"
       /\ FcntlRights_from_file_ret(ret.fd).val = ret.arg

\* the test's case: GetFL and GetOwn applied and read back
C3_Witness ==
  /\ ret.op = "FcntlRights::limit"
  /\ ret.res.tag = "Ok"
  /\ ret.arg = FcntlCmds.GetFL \cup FcntlCmds.GetOwn
  /\ FcntlRights_from_file_ret("file").val = FcntlCmds.GetFL \cup FcntlCmds.GetOwn
  /\ last_ok["file"] # <<>>

C5_EnterEstablishes ==
  entered_ok =>
    /\ sandboxed_ret
    /\ ret.op = "sandboxed" => ret.res.val

\* enter() returned Ok and the call after it was sandboxed()
C5_Witness ==
  /\ entered_ok
  /\ ret.op = "sandboxed"
  /\ ret.res = Ok(TRUE)

GatingRight ==
  [op \in {"File::read", "File::write", "Directory::open_file"} |->
     IF op = "File::read" THEN Read
     ELSE IF op = "File::write" THEN Write
     ELSE Lookup]

\* the latest call was an operation on a descriptor limited to a set R that
\* does not include the right gating the operation
CallOutsideRights ==
  /\ ret.op \in DOMAIN GatingRight
  /\ ~(ret.op = "Directory::open_file" /\ PathHasNul(ret.arg))
  /\ last_ok[ret.fd] # <<>>
  /\ ~FileRights_is_set(last_ok[ret.fd][1], GatingRight[ret.op])

\* C7 (enforcement of limited rights): after limit() has returned Ok for a
\* set R on a descriptor, an operation on it gated by a right that is not
\* in R returns Err with ENOTCAPABLE, and the step leaves the file and the
\* count of files opened as they were.
C7_Enforcement ==
  [][CallOutsideRights' =>
       /\ ret'.res = Err("ENOTCAPABLE")
       /\ written' = written
       /\ looked_up' = looked_up]_vars

\* a write reached the file, then the rights were limited to Read alone, and
\* the next write was refused
C7_Witness ==
  /\ ret.op = "File::write"
  /\ ret.res = Err("ENOTCAPABLE")
  /\ last_ok["file"] = <<AllowAll(FileRights_new, {"Read"})>>
  /\ written["file"] = 1

\* no limit that restricts ioctls was applied to the descriptor: no
\* IoctlRights::limit call was made on it, and the FileRights it was limited
\* to, if any, keep Right::Ioctl
NoIoctlLimitApplied(fd) ==
  /\ ~ioctl_limited[fd]
  /\ last_ok[fd] # <<>> => FileRights_is_set(last_ok[fd][1], Ioctl)

\* C8 (ioctl, unlimited versus empty): IoctlRights::from_file returns
\* Ok(Unlimited) on a descriptor to which no ioctl limit was applied; right
\* after limit of the value an empty builder finalizes to has returned Ok
\* it returns Ok(Limited([])), and the two values differ.
C8_UnlimitedVersusEmpty ==
  /\ \A fd \in Fds : \A len \in 0..MaxIoctls :
       NoIoctlLimitApplied(fd) => IoctlRights_from_file_ret(fd, len) = Ok(Unlimited)
  /\ ret.op = "IoctlRights::limit" =>
       ((ret.arg = IoctlsBuilder_finalize(IoctlsBuilder_new) /\ ret.res.tag = "Ok") =>
          \A len \in 0..MaxIoctls :
             /\ IoctlRights_from_file_ret(ret.fd, len) = Ok(Limited(<<>>))
             /\ IoctlRights_from_file_ret(ret.fd, len) # Ok(Unlimited))

\* the empty list was applied to a descriptor that was Unlimited, its
\* FileRights limited but keeping Ioctl, and is read back as Limited([])
C8_Witness ==
  /\ ret.op = "IoctlRights::limit"
  /\ ret.arg = Limited(<<>>)
  /\ ret.res.tag = "Ok"
  /\ last_ok["file"] = <<AllowAll(FileRights_new, {"Ioctl"})>>
  /\ IoctlRights_from_file_ret("file", 0) = Ok(Limited(<<>>))

\* C9 as the specification words it: from_file returns Unlimited until the
\* first IoctlRights::limit call on the descriptor, and Limited at every
\* point after that call.
C9_AfterAnyLimitCall ==
  \A fd \in Fds :
    /\ NoIoctlLimitApplied(fd) =>
         IoctlRights_from_file_ret(fd, MaxIoctls) = Ok(Unlimited)
    /\ ioctl_limited[fd] =>
         /\ IoctlRights_from_file_ret(fd, MaxIoctls).tag = "Ok"
         /\ IoctlRights_from_file_ret(fd, MaxIoctls).val.kind = "Limited"

\* C9 (ioctl lifecycle), as the code has it: from_file returns Ok(Unlimited)
\* on a descriptor until a limit that restricts its ioctls has returned Ok
\* (IoctlRights::limit of a Limited value, or a FileRights::limit that gives
\* up Right::Ioctl; IoctlRights::limit of Unlimited is a no-op that returns
\* Ok); from then on no from_file returns Unlimited, and one given room for
\* the whole list returns Ok(Limited(..)).
C9_IoctlLifecycle ==
  \A fd \in Fds :
    /\ ~ioctl_applied[fd] =>
         \A len \in 0..MaxIoctls : IoctlRights_from_file_ret(fd, len) = Ok(Unlimited)
    /\ ioctl_applied[fd] =>
         /\ \A len \in 0..MaxIoctls : IoctlRights_from_file_ret(fd, len) # Ok(Unlimited)
         /\ IoctlRights_from_file_ret(fd, MaxIoctls).tag = "Ok"
         /\ IoctlRights_from_file_ret(fd, MaxIoctls).val.kind = "Limited"

\* a list was applied, and a later limit of Unlimited returned Ok and left
\* the descriptor Limited
C9_Witness ==
  /\ ioctl_applied["file"]
  /\ ret.op = "IoctlRights::limit"
  /\ ret.arg = Unlimited
  /\ ret.res.tag = "Ok"
  /\ IoctlRights_from_file_ret("file", MaxIoctls) = Ok(Limited(<<1>>))

\* the rights whose names appear in the right_or! of c, and in theirs
RECURSIVE Implied(_)
Implied(c) ==
  IF c \in DOMAIN OredInto
  THEN OredInto[c] \cup UNION {Implied(p) : p \in OredInto[c]}
  ELSE {}

\* C10 (implication closure): for every composite right c allowed on a
\* FileRights value F and every right p OR-ed into c's definition, directly
\* or through another composite, F.is_set(p) is true, and F contains the
\* value built by allowing just the rights c implies.
C10_ImplicationClosure ==
  \A c \in allowed \cap DOMAIN OredInto :
    /\ \A p \in Implied(c) : FileRights_is_set(rights, Right[p])
    /\ FileRights_contains(rights, AllowAll(FileRights_new, Implied(c)))

\* MmapRWX was allowed: it implies MmapR, MmapW and MmapX, through them
\* Mmap, Seek, Read and Write, and through Seek SeekTell
C10_Witness ==
  /\ "MmapRWX" \in allowed
  /\ Implied("MmapRWX") =
       {"MmapR", "MmapW", "MmapX", "Mmap", "Seek", "Read", "Write", "SeekTell"}
  /\ FileRights_is_set(rights, SeekTell)
  /\ FileRights_contains(rights, AllowAll(FileRights_new, Implied("MmapRWX")))

\* the flags of a FileRights value: the flag bits set in each of its words
Flags(r) == UNION {{<<i, b>> : b \in r[i] \cap FlagBits} : i \in 1..2}

\* C11 (contains): a.contains(b) returns true exactly when every flag set
\* in b is set in a, for every pair of values the calls build; the call
\* always returns a value and leaves both operands as they were.
C11_Contains ==
  [][ret'.op = "FileRights::contains" =>
       /\ ret'.res.tag = "Ok"
       /\ ret'.res.val = (Flags(other) \subseteq Flags(rights))
       /\ rights' = rights
       /\ other' = other]_vars

\* {Read, Write} contains {Write}
C11_Witness ==
  /\ ret.op = "FileRights::contains"
  /\ ret.res = Ok(TRUE)
  /\ rights = AllowAll(FileRights_new, {"Read", "Write"})
  /\ other = AllowAll(FileRights_new, {"Write"})

\* {Read, Write} does not contain {Read, Seek}
C11_WitnessNot ==
  /\ ret.op = "FileRights::contains"
  /\ ret.res = Ok(FALSE)
  /\ rights = AllowAll(FileRights_new, {"Read", "Write"})
  /\ other = AllowAll(FileRights_new, {"Read", "Seek"})

\* C12 (merge and remove introduce no flag): after a.merge(b) the flags of
\* a are exactly the union of the flags a and b had before the call, after
\* a.remove(b) exactly the flags a had and b did not have; both calls
\* return Ok, every flag of the result was a flag of an operand, and b is
\* unchanged.
C12_MergeRemove ==
  [][/\ ret'.op = "FileRights::merge" =>
          Flags(rights') = Flags(rights) \cup Flags(other)
     /\ ret'.op = "FileRights::remove" =>
          Flags(rights') = Flags(rights) \ Flags(other)
     /\ ret'.op \in {"FileRights::merge", "FileRights::remove"} =>
          /\ ret'.res = Ok("()")
          /\ ret'.arg = <<rights, other>>
          /\ Flags(rights') \subseteq Flags(rights) \cup Flags(other)
          /\ other' = other]_vars

\* {Read} merged with {Write, Seek} is {Read, Write, Seek}
C12_Witness ==
  /\ ret.op = "FileRights::merge"
  /\ ret.arg = <<AllowAll(FileRights_new, {"Read"}),
                 AllowAll(FileRights_new, {"Write", "Seek"})>>
  /\ rights = AllowAll(FileRights_new, {"Read", "Write", "Seek"})
  /\ other = AllowAll(FileRights_new, {"Write", "Seek"})

\* {Read, Write} with {Write, Seek} removed is {Read}
C12_WitnessRemove ==
  /\ ret.op = "FileRights::remove"
  /\ ret.arg = <<AllowAll(FileRights_new, {"Read", "Write"}),
                 AllowAll(FileRights_new, {"Write", "Seek"})>>
  /\ Flags(rights) = Flags(AllowAll(FileRights_new, {"Read"}))
  /\ other = AllowAll(FileRights_new, {"Write", "Seek"})

\* C13 (validity invariant): every FileRights value handed back by new and
\* by any sequence of allow, deny, set, clear, merge and remove with any
\* Right is valid: each word carries exactly its own tag and no bit outside
\* the defined rights is set.
C13_AlwaysValid ==
  /\ FileRights_is_valid(rights)
  /\ FileRights_is_valid(other)

\* the values stay valid as long as no Unused enumerator was allowed: what
\* breaks validity is FileRights::new().allow(Right::Unused044)
C13_InvalidOnlyByUnused ==
  \A r \in {rights, other} :
    ~FileRights_is_valid(r) => <<1, 43>> \in Flags(r)

C13_InvalidReached ==
  /\ ret.op = "FileRights::allow"
  /\ ret.arg = "Unused044"
  /\ rights = FileRights_allow(FileRights_new, Unused044)
  /\ ~FileRights_is_valid(rights)

\* the channel behind the call the main thread is blocked in
ClientChan == handles[client.h].chan

\* the blocked call returns in this step
Returns(op) ==
  /\ client.pc = "wait"
  /\ client.op = op
  /\ client' = Idle

\* C14 (limit negotiation is sticky): once limit_uid has returned Ok on a
\* service channel, every later uid request on that channel returns
\* Err(ENOTCAPABLE), on every repetition, and never a uid.
C14_StickyLimit ==
  [][(Returns("CapAgent::uid") /\ channels[ClientChan].acked # None)
       => ret'.res = Err(ENOTCAPABLE)]_vars

\* the second uid request after the limit was set is refused as the first
C14_Witness ==
  /\ ret.op = "CapAgent::uid"
  /\ ret.res = Err(ENOTCAPABLE)
  /\ channels[handles[ret.fd].chan].acked = Some("{}")
  /\ channels[handles[ret.fd].chan].sent = 4
  /\ client = Idle

\* before any limit the same request is answered
C14_WitnessBefore ==
  /\ ret.op = "CapAgent::uid"
  /\ ret.res = Ok("uid")
  /\ channels[handles[ret.fd].chan].acked = None

\* C15 (broker round trip): xfer_nvlist({"cmd": X}) to a service that
\* handles X (and has not been limited) yields a reply whose "error" is 0;
\* a command the service does not handle yields a reply with a non-zero
\* "error", an Err at the client; the reply is never missing.
C15_RoundTrip ==
  [][Returns("xfer_nvlist") =>
       /\ ~ret'.arg.null
       /\ (client.arg.cmd = "getuid" /\ channels[ClientChan].limits = None)
            => (ret'.arg.error = Some({}) /\ ret'.res.tag = "Ok")
       /\ client.arg.cmd # "getuid"
            => (ret'.arg.error \notin {None, Some({})} /\ ret'.res.tag = "Err")]_vars

\* the half that holds: a handled command is answered with "error" 0
C15_HandledCommand ==
  [][(Returns("xfer_nvlist") /\ client.arg.cmd = "getuid"
        /\ channels[ClientChan].limits = None)
       => (~ret'.arg.null /\ ret'.arg.error = Some({}) /\ ret'.res = Ok(ret'.arg))]_vars

\* what an unhandled command does: the handler's assert_eq! ends the
\* service process, no reply is sent and the call fails on the channel
C15_ServiceGone ==
  /\ ret.op = "xfer_nvlist"
  /\ ret.arg.null
  /\ ret.res = Err(ECONNRESET)
  /\ handles[ret.fd].live
  /\ ~channels[handles[ret.fd].chan].alive

\* an i32 and a u64, both written as bit positions, are the same number
SameNumber(i, u) == u \subseteq 0..30 /\ i = u

\* the returning call sends nothing: the request went out once
NotSentAgain ==
  /\ channels'[ClientChan].sent = channels[ClientChan].sent
  /\ channels'[ClientChan].inbox = channels[ClientChan].inbox

\* C16 as stated (reply interpretation in xfer_nvlist): "error" 0 is
\* returned as Ok with the whole envelope, a non-zero "error" e as Err
\* carrying OS error e, a reply without the key is a panic, and the
\* request is never sent again.
C16_ErrCarriesE ==
  [][(Returns("xfer_nvlist") /\ ~ret'.arg.null) =>
       /\ ret'.arg.error = Some({}) => ret'.res = Ok(ret'.arg)
       /\ ret'.arg.error \notin {None, Some({})} =>
            (ret'.res.tag = "Err" /\ SameNumber(ret'.res.val, ret'.arg.error[1]))
       /\ ret'.arg.error = None => ret'.res.tag = "panic"
       /\ NotSentAgain]_vars

\* C16 (amended): as above, but the Err carries e as i32, the low 32 bits
\* of e, which is the number e exactly when e is below 2^31; the call
\* that got no reply at all returns Err as well.
C16_ReplyInterpretation ==
  [][Returns("xfer_nvlist") =>
       /\ ret'.arg.null => ret'.res.tag = "Err"
       /\ (~ret'.arg.null /\ ret'.arg.error = Some({})) => ret'.res = Ok(ret'.arg)
       /\ (~ret'.arg.null /\ ret'.arg.error \notin {None, Some({})}) =>
            /\ ret'.res.tag = "Err"
            /\ ret'.res.val = ret'.arg.error[1] \ (32..63)
            /\ ret'.arg.error[1] \subseteq 0..30
                 => SameNumber(ret'.res.val, ret'.arg.error[1])
       /\ (~ret'.arg.null /\ ret'.arg.error = None) => ret'.res.tag = "panic"
       /\ NotSentAgain]_vars

\* "error" = 2^32 + 2 comes back as Err with OS error 2
C16_Witness ==
  /\ ret.op = "xfer_nvlist"
  /\ ~ret.arg.null
  /\ ret.arg.error = Some({1, 32})
  /\ ret.res = Err({1})

\* the three cases of the claim are all reached
C16_WitnessOk ==
  /\ ret.op = "xfer_nvlist"
  /\ ~ret.arg.null
  /\ ret.arg.error = Some({})
  /\ ret.res = Ok(ret.arg)

C16_WitnessErr ==
  /\ ret.op = "xfer_nvlist"
  /\ ~ret.arg.null
  /\ ret.arg.error = Some(ENOTCAPABLE)
  /\ ret.res = Err(ENOTCAPABLE)

C16_WitnessPanic ==
  /\ ret.op = "xfer_nvlist"
  /\ ~ret.arg.null
  /\ ret.arg.error = None
  /\ ret.res.tag = "panic"

\* the owners that hold channel c
Owners(c) == {h \in 1..Len(handles) : handles[h].chan = c}

\* C17 (closed exactly once): every channel created by Casper::new,
\* service_open or try_clone has exactly one owner; cap_close has run on it
\* once if that owner was dropped and not at all otherwise; and no
\* operation was issued on it after it was closed.
C17_ClosedExactlyOnce ==
  \A c \in 1..MaxHandles :
    channels[c].kind # "none" =>
      /\ Cardinality(Owners(c)) = 1
      /\ channels[c].closes = IF \A h \in Owners(c) : ~handles[h].live THEN 1 ELSE 0
      /\ ~channels[c].late

\* a Casper, its clone and an agent were created and used, and all three
\* were dropped
C17_Witness ==
  /\ Len(handles) = 3
  /\ {handles[h].kind : h \in 1..3} = {"Casper", "CapAgent"}
  /\ ret.op = "CapChannel::drop"
  /\ \A h \in 1..3 : ~handles[h].live /\ handles[h].chan = h
  /\ \A c \in 1..3 : channels[c].closes = 1
  /\ \E c \in 1..3 : channels[c].sent > 0
  /\ \E h \in 1..3 : h > 1 /\ handles[h].kind = "Casper"

\* C18 (registration precedes the fork): whenever Casper::new forks the
\* broker, every service declared with service! has been registered
\* exactly once, so the broker starts with each of them once; after main
\* has started no registration is made, and the registrations a broker
\* was forked with never change.
C18_RegistrationPrecedesFork ==
  [][/\ \A c \in 1..MaxHandles :
          channels'[c].snapshot # None =>
            \A name \in Services : channels'[c].snapshot[1][name] = 1
     /\ phase = "main" => registry' = registry
     /\ \A c \in 1..MaxHandles :
          channels[c].snapshot # None => channels'[c].snapshot = channels[c].snapshot]_vars

\* a broker forked by Casper::new opened the registered service and the
\* service answered
C18_Witness ==
  /\ phase = "main"
  /\ registry = [name \in Services |-> 1]
  /\ channels[1].kind = "casper"
  /\ channels[1].snapshot = Some(registry)
  /\ channels[2].kind = "service"
  /\ ret.op = "CapAgent::uid"
  /\ ret.res = Ok("uid")

\* the requests of channel c that were sent and whose reply was not taken
Outstanding(c) == Len(channels[c].inbox) + Len(channels[c].outbox)

\* C19 (strict request-response): a call on a channel returns only with
\* the reply to its own request, which is the latest request sent on the
\* channel; at most one request is outstanding per channel; so the i-th
\* reply taken from a channel answers the i-th request sent on it.
C19_RequestResponse ==
  [][/\ \A c \in 1..MaxHandles : Outstanding(c)' <= 1
     /\ (client.pc = "wait" /\ client' # client) =>
          /\ channels[ClientChan].outbox # <<>>
          /\ ret'.arg = Head(channels[ClientChan].outbox) \/ UNCHANGED ret
          /\ Head(channels[ClientChan].outbox).re = client.seq
          /\ client.seq = channels[ClientChan].sent
          /\ channels'[ClientChan].outbox = <<>>]_vars

\* the fourth request on a channel got the fourth reply
C19_Witness ==
  /\ ret.op = "CapAgent::uid"
  /\ ~ret.arg.null
  /\ ret.arg.re = 4
  /\ channels[handles[ret.fd].chan].sent = 4
  /\ client = Idle

\* the service process handles a command of channel c in this step
Handles(c) ==
  /\ ret'.op = "service_message"
  /\ ret'.fd = c
  /\ ret'.arg.cmd \notin {"limit_set", "limit_get"}
  /\ channels'[c].alive

\* the limits whose limit_set was acknowledged on some channel of the
\* service
AckedLimits ==
  {channels[d].acked : d \in {e \in 1..MaxHandles : channels[e].acked # None}}

C20_OtherChannelUnlimited ==
  /\ ret.op = "service_message"
  /\ ret.arg.cmd = "getuid"
  /\ channels[ret.fd].seen = Some(None)
  /\ \E d \in 1..MaxHandles : d # ret.fd /\ channels[d].acked # None

\* C21 (ioctl round trip): right after limit(fd) of a list built with
\* IoctlsBuilder, repeated commands included, has returned Ok, from_file
\* with every len of at least the list's length returns Ok of the applied
\* value: the same commands in the same order.
C21_IoctlRoundTrip ==
  (ret.op = "IoctlRights::limit" /\ ret.res.tag = "Ok" /\ ret.arg.kind = "Limited") =>
    \A len \in Len(ret.arg.cmds)..MaxIoctls :
      IoctlRights_from_file_ret(ret.fd, len) = Ok(ret.arg)

\* a list that names one command twice was applied and reads back as it is
C21_Witness ==
  /\ ret.op = "IoctlRights::limit"
  /\ ret.res.tag = "Ok"
  /\ ret.arg = IoctlsBuilder_finalize(
                 IoctlsBuilder_allow(IoctlsBuilder_allow(IoctlsBuilder_new, 1), 1))
  /\ IoctlRights_from_file_ret(ret.fd, 2) = Ok(Limited(<<1, 1>>))

\* ---- src/right.rs ----
\* FileRights::new(raw_rights), given the outcome o of the libc call
right_FileRights_new(o) ==
  IF o.aborts THEN Panic("abort")
  ELSE IF FileRights_is_valid(o.rights) THEN Ok(o.rights)
  ELSE Err("Invalid")

\* RightsBuilder::finalize(): the results it can have
right_RightsBuilder_finalize(self) ==
  {right_FileRights_new(o) : o \in cap_rights_vinit(self)}

\* the calls explored: every sequence of at most MaxCalls calls, and the
\* sequence of test_rights_builer
MayCall(op, r) ==
  LET calls == Append(builder.calls, <<op, r>>)
  IN  \/ Len(calls) <= MaxCalls
      \/ /\ Len(calls) <= Len(test_rights_builer)
         /\ calls = SubSeq(test_rights_builer, 1, Len(calls))

nonbuilder_vars == <<kernel_vars, effect_vars, ret, process_vars, file_hist_vars,
                     ioctl_hist_vars, local_vars, algebra_vars, casper_vars,
                     service_vars>>

\* RightsBuilder::new(right); the builder of capsicum/src/right.rs and the
\* FileRights value start empty and are given the right by allow
RightsBuilder_new_call(r) ==
  /\ Alive
  /\ builder.calls = <<>>
  /\ MayCall("new", r)
  /\ builder' = [calls |-> <<<<"new", r>>>>,
                 raw |-> right_RightsBuilder_new(Right[r]),
                 bits |-> cap_RightsBuilder_new(Right[r]),
                 cap |-> RightsBuilder_allow(RightsBuilder_new, Right[r]),
                 file |-> FileRights_allow(FileRights_new, Right[r])]
  /\ UNCHANGED nonbuilder_vars

\* add(right) on the u64 builders, allow(right) on the others
RightsBuilder_add(r) ==
  /\ Alive
  /\ builder.calls # <<>>
  /\ MayCall("add", r)
  /\ builder' = [calls |-> Append(builder.calls, <<"add", r>>),
                 raw |-> right_RightsBuilder_add(builder.raw, Right[r]),
                 bits |-> cap_RightsBuilder_add(builder.bits, Right[r]),
                 cap |-> RightsBuilder_allow(builder.cap, Right[r]),
                 file |-> FileRights_allow(builder.file, Right[r])]
  /\ UNCHANGED nonbuilder_vars

\* remove(right) on the u64 builders, deny(right) on the others
RightsBuilder_remove(r) ==
  /\ Alive
  /\ builder.calls # <<>>
  /\ MayCall("remove", r)
  /\ builder' = [calls |-> Append(builder.calls, <<"remove", r>>),
                 raw |-> right_RightsBuilder_remove(builder.raw, Right[r]),
                 bits |-> cap_RightsBuilder_remove(builder.bits, Right[r]),
                 cap |-> RightsBuilder_deny(builder.cap, Right[r]),
                 file |-> FileRights_deny(builder.file, Right[r])]
  /\ UNCHANGED nonbuilder_vars

\* a program that only builds rights
NextBuilder ==
  \/ \E r \in BuilderPool : RightsBuilder_new_call(r)
  \/ \E r \in BuilderPool : RightsBuilder_add(r)
  \/ \E r \in BuilderPool : RightsBuilder_remove(r)

SpecBuilder == InitLimits /\ [][NextBuilder]_vars

(***************************************************************************)
(* C22.  The builder adds no behaviour.                                    *)
(***************************************************************************)
\* C22, for the builder of capsicum/src/right.rs: after every sequence of
\* allow / deny calls, finalize() is the FileRights value that the same
\* allow / deny calls build from the empty one.
C22_BuilderIsFileRights ==
  RightsBuilder_finalize(builder.cap) = builder.file

\* C22 as the claim states it, for the builder of src/right.rs too: its
\* finalize() returns, and returns only, Ok of the FileRights value that
\* the same sequence of set / clear calls builds from the empty one.
C22_BuilderAddsNoBehaviour ==
  /\ C22_BuilderIsFileRights
  /\ \A res \in right_RightsBuilder_finalize(builder.raw) :
       res.tag = "Ok" /\ res.val = builder.file

\* a builder that was given a right, had one removed and still holds one
C22_Witness ==
  /\ Len(builder.calls) >= 3
  /\ builder.calls[Len(builder.calls)][1] = "remove"
  /\ builder.file # FileRights_new
  /\ RightsBuilder_finalize(builder.cap) = builder.file

\* rights of word 0 only: the two builders agree with the FileRights value
C22_Word0Agrees ==
  (\A i \in 1..Len(builder.calls) : 57 \in Right[builder.calls[i][2]]) =>
    \A res \in right_RightsBuilder_finalize(builder.raw) :
       res.tag = "Ok" /\ res.val = builder.file

(***************************************************************************)
(* C23.  The raw value of the builder of src/right.rs.                     *)
(***************************************************************************)
\* a u64 written in decimal has at most 20 digits
Digits == 1..20

\* the decimal digits, least significant first, of 2 * a + bit
DoubleAdd(a, bit) ==
  LET digit(i) == (2 * a[i] + (IF i = 1 THEN bit ELSE IF a[i - 1] >= 5 THEN 1 ELSE 0)) % 10
  IN  SubSeq([i \in Digits |-> digit(i)], 1, 20)

RECURSIVE DecimalFrom(_, _)
\* the decimal digits of the number made of the bits b..63 of word
DecimalFrom(word, b) ==
  IF b > 63 THEN SubSeq([i \in Digits |-> 0], 1, 20)
  ELSE DoubleAdd(DecimalFrom(word, b + 1), IF b \in word THEN 1 ELSE 0)

\* the decimal digits of the u64 whose set bits are word
Decimal(word) == DecimalFrom(word, 0)

\* a decimal literal, most significant digit first, as digits
Literal(ds) ==
  SubSeq([i \in Digits |-> IF i <= Len(ds) THEN ds[Len(ds) + 1 - i] ELSE 0], 1, 20)

RECURSIVE Fold(_)
\* the fold the claim describes: the initial right's value, add(r) ORs r's
\* value in, remove(r) clears r's bits and then sets 1 << 57
Fold(calls) ==
  IF Len(calls) = 1 THEN Right[calls[1][2]]
  ELSE LET before == Fold(SubSeq(calls, 1, Len(calls) - 1))
           last == calls[Len(calls)]
       IN  IF last[1] = "add" THEN before \cup Right[last[2]]
           ELSE (before \ Right[last[2]]) \cup {57}

\* C23: after any sequence of add and remove calls raw() is the fold of the
\* sequence (add is OR, remove clears the right's bits and sets bit 57), and
\* after the calls of test_rights_builer it is 144115188076380163.
C23_RawIsFold ==
  builder.calls # <<>> =>
    /\ right_RightsBuilder_raw(builder.raw) = Fold(builder.calls)
    /\ builder.calls = test_rights_builer =>
         Decimal(right_RightsBuilder_raw(builder.raw)) =
           Literal(<<1, 4, 4, 1, 1, 5, 1, 8, 8, 0, 7, 6, 3, 8, 0, 1, 6, 3>>)

\* the calls of test_rights_builer have been made
C23_Witness ==
  /\ builder.calls = test_rights_builer
  /\ right_RightsBuilder_raw(builder.raw) = {0, 1, 19, 57}

\* a right added twice and a right removed are in the sequence
C23_WitnessRepeated ==
  /\ Len(builder.calls) = 3
  /\ builder.calls[2] = builder.calls[3]
  /\ builder.calls[2][1] = "add"
  /\ builder.raw = Right[builder.calls[1][2]] \cup Right[builder.calls[2][2]]

(***************************************************************************)
(* A service process called by the broker.                                 *)
(***************************************************************************)
\* the handler's result: Ok(()), Err(e), or a panic
HandlerResult(tag, e) ==
  IF tag = "Ok" THEN Ok("()") ELSE IF tag = "Err" THEN Err(e) ELSE Panic("handler")

HandlerTags == {"Ok", "Err", "panic"}

\* the broker may call: the process lives and the previous call's envelopes
\* have been released
MayServe ==
  /\ service.alive
  /\ Len(service.calls) < MaxServiceCalls
  /\ service.calls # <<>> => service.calls[Len(service.calls)].released

Served(call) ==
  [alive |-> call.returned, calls |-> Append(service.calls, call)]

nonservice_vars == <<kernel_vars, effect_vars, ret, process_vars, file_hist_vars,
                     ioctl_hist_vars, local_vars, algebra_vars, casper_vars,
                     builder_vars>>

\* the broker calls c_cmd
c_cmd_call(limits_null, tag, e) ==
  /\ Alive
  /\ MayServe
  /\ tag = "Err" \/ e.repr = "Custom"
  /\ service' = Served(c_cmd(Envelope(limits_null), HandlerResult(tag, e)))
  /\ UNCHANGED nonservice_vars

\* the broker calls c_limit
c_limit_call(old_null, new_null, tag, e) ==
  /\ Alive
  /\ MayServe
  /\ tag = "Err" \/ e.repr = "Custom"
  /\ service' = Served(c_limit(Envelope(old_null), Envelope(new_null),
                               HandlerResult(tag, e)))
  /\ UNCHANGED nonservice_vars

\* the broker, after the callback has returned, releases the envelopes
broker_release ==
  /\ Alive
  /\ service.alive
  /\ service.calls # <<>>
  /\ ~service.calls[Len(service.calls)].released
  /\ service' = [service EXCEPT !.calls[Len(service.calls)] =
                   [@ EXCEPT !.released = TRUE,
                             !.env = [n \in DOMAIN @ |-> nvlist_destroy(@[n])]]]
  /\ UNCHANGED nonservice_vars

NextService ==
  \/ \E limits_null \in BOOLEAN, tag \in HandlerTags, e \in io_Error :
       c_cmd_call(limits_null, tag, e)
  \/ \E old_null, new_null \in BOOLEAN, tag \in HandlerTags, e \in io_Error :
       c_limit_call(old_null, new_null, tag, e)
  \/ broker_release

SpecService == InitLimits /\ [][NextService]_vars

(***************************************************************************)
(* C24.  Framing of the handler's result.                                  *)
(***************************************************************************)
\* C24 as the claim states it: for every result the handler returns, the
\* callback returns 0 exactly when the result is Ok, and for Err it returns
\* the error's OS code, which is not 0.
C24_HandlerResultFraming ==
  \A i \in 1..Len(service.calls) :
    LET call == service.calls[i]
    IN  /\ call.res.tag = "Ok" => call.returned /\ call.r = {}
        /\ call.res.tag = "Err" =>
             /\ call.returned
             /\ call.r # {}
             /\ call.res.val.repr = "Os" /\ call.r = call.res.val.code

\* an Err that carries a non-zero OS error code is framed as that code, and
\* Ok as 0
C24_OsErrorFraming ==
  \A i \in 1..Len(service.calls) :
    LET call == service.calls[i]
    IN  /\ call.res.tag = "Ok" => call.returned /\ call.r = {}
        /\ (call.res.tag = "Err" /\ raw_os_error(call.res.val) \notin {None, Some({})}) =>
             call.returned /\ call.r = call.res.val.code /\ call.r # {}

\* a handler returned Err without an OS error code and the process is gone
C24_AbortReached ==
  /\ ~service.alive
  /\ service.calls[Len(service.calls)].res.tag = "Err"

\* a handler returned Err and the callback returned 0
C24_ZeroReached ==
  \E i \in 1..Len(service.calls) :
    /\ service.calls[i].res.tag = "Err"
    /\ service.calls[i].returned
    /\ service.calls[i].r = {}

(***************************************************************************)
(* C25.  All0 and All1.                                                    *)
(***************************************************************************)
\* the enumerators the claim leaves out
NotARight == {"Null", "Unused044", "Unused057", "Unused122", "Unused157"}

\* All_w & r == r, w being the word of r
InAllOfItsWord(r) ==
  LET all == IF right_to_index(Right[r]) = 0 THEN All0 ELSE All1
  IN  all \cap Right[r] = Right[r]

\* C25 as the claim states it: every right a FileRights value was given,
\* other than Null and the Unused ones, lies within the All value of its
\* word.
C25_AllContainsEveryRight ==
  \A r \in allowed \ NotARight : InAllOfItsWord(r)

\* the rights that lie outside the All value of their word are exactly
\* Bindat, Connectat, LinkatSource and RenameatTarget
C25_OutsideAll0 ==
  \A r \in allowed \ NotARight :
    ~InAllOfItsWord(r) <=> r \in {"Bindat", "Connectat", "LinkatSource", "RenameatTarget"}

\* a FileRights value was given Bindat, which All0 does not contain
C25_BindatReached ==
  /\ "Bindat" \in allowed
  /\ FileRights_is_set(rights, Bindat)
  /\ ~FileRights_is_set(FileRights_allow(FileRights_new, All0), Bindat)

(***************************************************************************)
(* C26.  remove leaves the other rights in place.                          *)
(***************************************************************************)
\* the latest three calls were add(q), add(r), remove(r), and q and r share
\* no flag bit
AddAddRemove(q, r) ==
  LET n == Len(builder.calls)
  IN  /\ n >= 4
      /\ builder.calls[n - 2] = <<"add", q>>
      /\ builder.calls[n - 1] = <<"add", r>>
      /\ builder.calls[n] = <<"remove", r>>
      /\ Right[q] \cap Right[r] \cap FlagBits = {}

\* C26 as the claim states it, for the builders of src/right.rs and
\* src/cap.rs: after add(q), add(r), remove(r), q and r sharing no flag bit,
\* every bit of q, its tag bit included, is set in the builder's value.
C26_OtherRightsKept ==
  \A q, r \in BuilderPool :
    AddAddRemove(q, r) =>
      /\ right_RightsBuilder_raw(builder.raw) \cap Right[q] = Right[q]
      /\ cap_RightsBuilder_bits(builder.bits) \cap Right[q] = Right[q]

\* the builder of src/right.rs keeps q when q is a right of word 0, and the
\* builder of capsicum/src/right.rs keeps q always
C26_KeptInWord0 ==
  \A q, r \in BuilderPool :
    AddAddRemove(q, r) =>
      /\ 57 \in Right[q] => builder.raw \cap Right[q] = Right[q]
      /\ FileRights_is_set(RightsBuilder_finalize(builder.cap), Right[q])

\* add(AclSet), add(AclGet), remove(AclGet): the tag bit of AclSet is gone
C26_TagLost ==
  /\ AddAddRemove("AclSet", "AclGet")
  /\ 58 \notin right_RightsBuilder_raw(builder.raw)
  /\ 19 \in right_RightsBuilder_raw(builder.raw)

(***************************************************************************)
(* C27.  remove only clears.                                               *)
(***************************************************************************)
\* the step is a remove(r) call on the builders
IsRemove(r) == builder'.calls = Append(builder.calls, <<"remove", r>>)

\* r was never given to the builder
NeverAdded(r) ==
  \A i \in 1..Len(builder.calls) :
    builder.calls[i][1] = "remove" \/ builder.calls[i][2] # r

\* C27 as the claim states it, for the builders of src/cap.rs and
\* src/right.rs: a remove(r) call sets no bit that was clear before it, and
\* leaves the value unchanged when r was never added.
C27_RemoveOnlyClears ==
  [][\A r \in BuilderPool :
       IsRemove(r) =>
         /\ builder'.bits \subseteq builder.bits
         /\ builder'.raw \subseteq builder.raw
         /\ NeverAdded(r) => builder'.bits = builder.bits /\ builder'.raw = builder.raw]_vars

\* deny on the builder of capsicum/src/right.rs only clears
C27_DenyOnlyClears ==
  [][\A r \in BuilderPool :
       IsRemove(r) => \A i \in 1..2 : builder'.cap[i] \subseteq builder.cap[i]]_vars

\* new(Read), remove(Write): the builder of src/cap.rs now holds Write's bit
C27_BitSet ==
  /\ builder.calls = <<<<"new", "Read">>, <<"remove", "Write">>>>
  /\ 1 \in cap_RightsBuilder_bits(builder.bits)

\* new(AclSet), remove(Read): the builder of src/right.rs gained bit 57
C27_TagSet ==
  /\ builder.calls = <<<<"new", "AclSet">>, <<"remove", "Read">>>>
  /\ 57 \in right_RightsBuilder_raw(builder.raw)

(***************************************************************************)
(* C28.  IoctlRights::from_file and a list longer than the buffer.         *)
(***************************************************************************)
\* C28 as the claim states it: every from_file(fd, len) call returns
\* Ok(Unlimited), Ok(Limited(v)) with at most len entries, or Err; it does
\* not panic.
C28_FromFileTotal ==
  ret.op = "IoctlRights::from_file" =>
    /\ ret.res.tag \in {"Ok", "Err"}
    /\ (ret.res.tag = "Ok" /\ ret.res.val.kind = "Limited") =>
         Len(ret.res.val.cmds) <= ret.arg

\* from_file panics exactly when the descriptor's list holds more than len
\* commands, and otherwise returns as the claim says
C28_PanicsWhenShort ==
  ret.op = "IoctlRights::from_file" =>
    /\ ret.res.tag = "panic" <=>
         (fde_ioctls[ret.fd].nioctls # CAP_IOCTLS_ALL /\ capsupport
            /\ fde_ioctls[ret.fd].nioctls > ret.arg)
    /\ (ret.res.tag = "Ok" /\ ret.res.val.kind = "Limited") =>
         Len(ret.res.val.cmds) <= ret.arg

\* a list of two commands was applied and from_file(fd, 1) panicked
C28_PanicReached ==
  /\ ret.op = "IoctlRights::from_file"
  /\ ret.arg = 1
  /\ fde_ioctls[ret.fd].nioctls = 2
  /\ ret.res.tag = "panic"

(***************************************************************************)
(* The CapErr-based API of src/common.rs, src/right.rs, src/fcntl.rs and   *)
(* src/ioctl.rs.  Each wrapper is given k, the answer of the call it       *)
(* makes, and turns a failure into a CapErr variant, named by a string.    *)
(***************************************************************************)
\* CapErr::from(CapErrType): the variant of the same name
CapErr_from(type) == type

\* what a call on a descriptor that is not open answers
EBADF == [res |-> -1, errno |-> "EBADF"]

\* a descriptor that is not open, next to the open ones
Closed == "closed"

\* src/right.rs FileRights::limit
right_FileRights_limit_ret(k) ==
  IF k.res < 0 THEN Err(CapErr_from("Limit")) ELSE Ok("()")

\* src/right.rs FileRights::from_file
right_FileRights_from_file_ret(k) ==
  IF k.res < 0 THEN Err(CapErr_from("Get"))
  ELSE IF FileRights_is_valid(k.rights) THEN Ok(k.rights)
  ELSE Err(CapErr_from("Invalid"))

\* src/right.rs FileRights::merge, remove, set, clear: null is whether the
\* libc call returned a null pointer
right_FileRights_merge_ret(null) ==
  IF null THEN Err(CapErr_from("Merge")) ELSE Ok("()")

right_FileRights_remove_ret(null) ==
  IF null THEN Err(CapErr_from("Remove")) ELSE Ok("()")

right_FileRights_set_ret(null) ==
  IF null THEN Err(CapErr_from("Set")) ELSE Ok("()")

right_FileRights_clear_ret(null) ==
  IF null THEN Err(CapErr_from("Clear")) ELSE Ok("()")

\* src/fcntl.rs FcntlRights::limit
fcntl_FcntlRights_limit_ret(k) ==
  IF k.res < 0 THEN Err(CapErr_from("Get")) ELSE Ok("()")

\* src/fcntl.rs FcntlRights::from_file
fcntl_FcntlRights_from_file_ret(k) ==
  IF k.res < 0 THEN Err(CapErr_from("Get")) ELSE Ok(k.fcntls)

\* src/ioctl.rs IoctlRights::limit
ioctl_IoctlRights_limit_ret(self, k) ==
  IF self.kind = "Limited" /\ k.res < 0 THEN Err(CapErr_from("Limit")) ELSE Ok("()")

\* src/ioctl.rs IoctlRights::from_file
ioctl_IoctlRights_from_file_ret(k, len) ==
  IF k.res = CAP_IOCTLS_ALL THEN Ok(Unlimited)
  ELSE IF k.res >= 0
       THEN IF k.res > len THEN Panic("cap_ioctls_get overflowed our buffer")
            ELSE Ok(Limited(SubSeq(k.buf, 1, k.res)))
       ELSE Err(CapErr_from("Get"))

\* what the limits leave alone
nonlimit_vars == <<capsupport, capmode, effect_vars, process_vars, file_hist_vars,
                   ioctl_hist_vars, local_vars, algebra_vars, casper_vars,
                   builder_vars, service_vars>>

right_FileRights_limit(self, fd) ==
  LET k == IF fd = Closed THEN EBADF ELSE sys_cap_rights_limit(fd, self)
  IN  /\ Alive
      /\ ret' = Call("src/right.rs FileRights::limit", fd, self,
                     right_FileRights_limit_ret(k))
      /\ IF fd = Closed THEN UNCHANGED <<fde_rights, fde_fcntls, fde_ioctls>>
         ELSE /\ fde_rights' = [fde_rights EXCEPT ![fd] = k.rights]
              /\ fde_fcntls' = [fde_fcntls EXCEPT ![fd] = k.fcntls]
              /\ fde_ioctls' = [fde_ioctls EXCEPT ![fd] = k.ioctls]
      /\ UNCHANGED nonlimit_vars

right_FileRights_from_file(fd) ==
  LET k == IF fd = Closed THEN EBADF ELSE sys_cap_rights_get(fd)
  IN  /\ Alive
      /\ ret' = Call("src/right.rs FileRights::from_file", fd, "",
                     right_FileRights_from_file_ret(k))
      /\ UNCHANGED <<fde_rights, fde_fcntls, fde_ioctls, nonlimit_vars>>

fcntl_FcntlRights_limit(self, fd) ==
  LET k == IF fd = Closed THEN EBADF ELSE sys_cap_fcntls_limit(fd, self)
  IN  /\ Alive
      /\ ret' = Call("src/fcntl.rs FcntlRights::limit", fd, self,
                     fcntl_FcntlRights_limit_ret(k))
      /\ IF fd = Closed THEN UNCHANGED fde_fcntls
         ELSE fde_fcntls' = [fde_fcntls EXCEPT ![fd] = k.fcntls]
      /\ UNCHANGED <<fde_rights, fde_ioctls, nonlimit_vars>>

fcntl_FcntlRights_from_file(fd) ==
  LET k == IF fd = Closed THEN EBADF ELSE sys_cap_fcntls_get(fd)
  IN  /\ Alive
      /\ ret' = Call("src/fcntl.rs FcntlRights::from_file", fd, "",
                     fcntl_FcntlRights_from_file_ret(k))
      /\ UNCHANGED <<fde_rights, fde_fcntls, fde_ioctls, nonlimit_vars>>

ioctl_IoctlRights_limit(self, fd) ==
  LET k == IF fd = Closed THEN EBADF
           ELSE IF self.kind = "Limited" THEN sys_cap_ioctls_limit(fd, self.cmds)
           ELSE [res |-> 0, errno |-> "", ioctls |-> fde_ioctls[fd]]
  IN  /\ Alive
      /\ ret' = Call("src/ioctl.rs IoctlRights::limit", fd, self,
                     ioctl_IoctlRights_limit_ret(self, k))
      /\ IF fd = Closed THEN UNCHANGED fde_ioctls
         ELSE fde_ioctls' = [fde_ioctls EXCEPT ![fd] = k.ioctls]
      /\ UNCHANGED <<fde_rights, fde_fcntls, nonlimit_vars>>

ioctl_IoctlRights_from_file(fd, len) ==
  LET k == IF fd = Closed THEN EBADF ELSE sys_cap_ioctls_get(fd, len)
  IN  /\ Alive
      /\ ret' = Call("src/ioctl.rs IoctlRights::from_file", fd, len,
                     ioctl_IoctlRights_from_file_ret(k, len))
      /\ UNCHANGED <<fde_rights, fde_fcntls, fde_ioctls, nonlimit_vars>>

\* limits and queries on an open descriptor and on one that is not open
NextCapErr ==
  \/ \E self \in FileRightsLimitsInputs, fd \in {"file", Closed} :
       right_FileRights_limit(self, fd)
  \/ \E fd \in {"file", Closed} : right_FileRights_from_file(fd)
  \/ \E self \in FcntlRightsInputs, fd \in {"file", Closed} :
       fcntl_FcntlRights_limit(self, fd)
  \/ \E fd \in {"file", Closed} : fcntl_FcntlRights_from_file(fd)
  \/ \E self \in IoctlRightsInputs, fd \in {"file", Closed} :
       ioctl_IoctlRights_limit(self, fd)
  \/ \E len \in 0..MaxIoctls, fd \in {"file", Closed} :
       ioctl_IoctlRights_from_file(fd, len)

SpecCapErr == InitLimits /\ [][NextCapErr]_vars

(***************************************************************************)
(* C29.  Typed failures name their operation.                              *)
(***************************************************************************)
CapErrLimits ==
  {"src/right.rs FileRights::limit", "src/fcntl.rs FcntlRights::limit",
   "src/ioctl.rs IoctlRights::limit"}

CapErrQueries ==
  {"src/right.rs FileRights::from_file", "src/fcntl.rs FcntlRights::from_file",
   "src/ioctl.rs IoctlRights::from_file"}

\* the failing call returned the variant v
Failed(v) == ret.res.tag = "Err" /\ ret.res.val = v

\* C29 as the claim states it: a failing limit returns CapErr::Limit for
\* FileRights, FcntlRights and IoctlRights alike, a failing from_file
\* returns CapErr::Get, and failing merge, remove, set and clear return
\* Merge, Remove, Set and Clear.
C29_FailureNamesOperation ==
  /\ (ret.op \in CapErrLimits /\ ret.res.tag = "Err") => Failed("Limit")
  /\ (ret.op \in CapErrQueries /\ ret.res.tag = "Err") => Failed("Get")
  /\ right_FileRights_merge_ret(TRUE) = Err("Merge")
  /\ right_FileRights_remove_ret(TRUE) = Err("Remove")
  /\ right_FileRights_set_ret(TRUE) = Err("Set")
  /\ right_FileRights_clear_ret(TRUE) = Err("Clear")

\* every failure but that of FcntlRights::limit names its operation, and a
\* failing FcntlRights::limit returns CapErr::Get
C29_ExceptFcntlLimit ==
  /\ (ret.op \in CapErrLimits \ {"src/fcntl.rs FcntlRights::limit"}
        /\ ret.res.tag = "Err") => Failed("Limit")
  /\ (ret.op = "src/fcntl.rs FcntlRights::limit" /\ ret.res.tag = "Err") => Failed("Get")
  /\ (ret.op \in CapErrQueries /\ ret.res.tag = "Err") => Failed("Get")

\* FcntlRights::limit was refused by the kernel and returned CapErr::Get
C29_FcntlLimitGet ==
  /\ ret.op = "src/fcntl.rs FcntlRights::limit"
  /\ ret.fd = "file"
  /\ Failed("Get")

(***************************************************************************)
(* C30.  The callbacks never free a borrowed envelope.                     *)
(***************************************************************************)
\* C30: when c_cmd or c_limit has returned, after handler success and after
\* handler error alike, every envelope it was given is back with the broker
\* and has not been destroyed; once the broker has released the envelopes
\* of the call, each one that is not null has been destroyed exactly once.
C30_EnvelopesReleasedOnce ==
  \A i \in 1..Len(service.calls) :
    LET call == service.calls[i]
    IN  call.returned =>
          \A n \in DOMAIN call.env :
            /\ ~call.released =>
                 call.env[n].owner = "broker" /\ call.env[n].destroys = 0
            /\ call.released =>
                 call.env[n].destroys = (IF call.env[n].null THEN 0 ELSE 1)

\* c_cmd returned after a handler error, c_limit after a handler success,
\* and the broker has released the envelopes of both
C30_Witness ==
  /\ Len(service.calls) = 2
  /\ service.calls[1].fn = "c_cmd"
  /\ service.calls[1].res.tag = "Err"
  /\ service.calls[1].released
  /\ ~service.calls[1].env.limits.null
  /\ service.calls[1].env.nvlin.destroys = 1
  /\ service.calls[2].fn = "c_limit"
  /\ service.calls[2].res.tag = "Ok"
  /\ service.calls[2].released
  /\ ~service.calls[2].env.newlimits.null

\* c_cmd has returned and the broker has not yet released its envelopes
C30_WitnessReturned ==
  /\ Len(service.calls) = 1
  /\ service.calls[1].fn = "c_cmd"
  /\ service.calls[1].returned
  /\ ~service.calls[1].released
  /\ service.calls[1].env.nvlout.owner = "broker"

====
